---- MODULE Spec2Model ----
(***************************************************************************)
(* Risk scoring and stress-testing engine of the credit-risk platform:     *)
(*   backend/services/risk_engine.py      (RiskEngine)                     *)
(*   backend/services/scenario_service.py (ScenarioService)                *)
(*                                                                         *)
(* Number representation (Python floats are modelled as exact scaled       *)
(* integers; a tie that exists only through binary rounding error is not   *)
(* modelled):                                                              *)
(*   money (revenue, debt, cash_reserves, ebitda)   whole currency units   *)
(*   exposure                                       tenths of a unit       *)
(*   debt_service_coverage, current_ratio           hundredths             *)
(*   trend_value, sentiment_score                   tenths                 *)
(*   users_change_qoq                               whole percent          *)
(*   sub-scores of a component                      hundredths of a point  *)
(*   default probability                            1e-5 before rounding   *)
(*   scenario base increase                         1/1000 point           *)
(*   sector multiplier                              1/1500                 *)
(*   per-SME score increase                         1/1500000 point        *)
(***************************************************************************)
EXTENDS Integers, Sequences, FiniteSets, TLC

\* ------------------------------------------------------------------------
\* Bounds of the model
\* ------------------------------------------------------------------------
\* SMEs in the portfolio of the interleaving and scenario specifications
MaxSmes == 2

\* ids in one batch request
MaxBatch == 2

\* calls handled in one behaviour
MaxCalls == 3

\* largest score handed to _get_risk_category on its own
MaxScore == 100

\* largest newly critical count handed to the tier selection on its own
MaxTierCount == 22

\* jobs created in one run of the job service
MaxJobs == 2

\* polls of the status of the jobs there are
MaxPolls == 2

\* ------------------------------------------------------------------------
\* Generic helpers
\* ------------------------------------------------------------------------
\* float('nan') in a numeric cell; never used in arithmetic
NaN == -999999999

\* marks a computation that was left by an exception
Raised == -999999998

Abs(x) == IF x < 0 THEN -x ELSE x

Min(a, b) == IF a <= b THEN a ELSE b

Max(a, b) == IF a >= b THEN a ELSE b

\* Python round(): nearest integer to num/den (den > 0), ties to even
Round(num, den) ==
    LET q == num \div den
        r == num % den
    IN  IF 2 * r < den THEN q
        ELSE IF 2 * r > den THEN q + 1
        ELSE IF q % 2 = 0 THEN q ELSE q + 1

RECURSIVE SumSeq(_)
SumSeq(s) == IF s = << >> THEN 0 ELSE Head(s) + SumSeq(Tail(s))

\* dict.get(key, default)
Get(d, key, default) == IF key \in DOMAIN d THEN d[key] ELSE default

\* ------------------------------------------------------------------------
\* Constant tables of the risk engine
\* ------------------------------------------------------------------------
RATING_NOTCHES ==
    << "AAA", "AA+", "AA", "AA-", "A+", "A", "A-", "BBB+", "BBB", "BBB-",
       "BB+", "BB", "BB-", "B+", "B", "B-", "CCC", "CC", "C", "D" >>

SIGNAL_WEIGHTS ==
    [ ceo_departure |-> 12, cfo_departure |-> 12, cto_departure |-> 12,
      c_level_departure |-> 10, director_change |-> 6, payment_delays |-> 8,
      covenant_breach |-> 9, cash_reserves_decline |-> 5, revenue_decline |-> 6,
      ebitda_compression |-> 4, web_traffic_drop_40 |-> 8,
      web_traffic_drop_25 |-> 5, sector_headwinds |-> 4, regulatory_review |-> 7,
      strong_trading |-> -3, cash_improvement |-> -2, sector_recovery |-> -1,
      bad_press |-> 3, esg_issue |-> 6, insolvency_flag |-> 15 ]

\* sector coefficient of the PD link, hundredths
SECTOR_BETA ==
    [ s \in { "Construction", "Retail/Fashion", "Food/Hospitality",
              "Manufacturing", "Software/Technology", "Healthcare",
              "Energy/Utilities", "Marketing Services",
              "Professional Services", "Logistics" } |->
        CASE s = "Construction"          -> 80
          [] s = "Retail/Fashion"        -> 60
          [] s = "Food/Hospitality"      -> 50
          [] s = "Manufacturing"         -> 20
          [] s = "Software/Technology"   -> -30
          [] s = "Healthcare"            -> -40
          [] s = "Energy/Utilities"      -> -20
          [] s = "Marketing Services"    -> 30
          [] s = "Professional Services" -> -10
          [] s = "Logistics"             -> 10 ]

SECTOR_BASE_RISK ==
    [ s \in { "Construction", "Retail/Fashion", "Food/Hospitality",
              "Manufacturing", "Software/Technology", "Healthcare",
              "Energy/Utilities", "Marketing Services",
              "Professional Services", "Logistics" } |->
        CASE s = "Software/Technology"   -> 25
          [] s = "Healthcare"            -> 20
          [] s = "Energy/Utilities"      -> 30
          [] s = "Manufacturing"         -> 35
          [] s = "Retail/Fashion"        -> 55
          [] s = "Food/Hospitality"      -> 50
          [] s = "Construction"          -> 60
          [] s = "Marketing Services"    -> 45
          [] s = "Professional Services" -> 30
          [] s = "Logistics"             -> 40 ]

\* ------------------------------------------------------------------------
\* Scoring helpers (step tables)
\* ------------------------------------------------------------------------
\* dscr in hundredths
score_dscr(dscr) ==
    IF dscr > 250 THEN 5
    ELSE IF dscr > 200 THEN 15
    ELSE IF dscr > 150 THEN 30
    ELSE IF dscr > 120 THEN 50
    ELSE IF dscr > 100 THEN 70
    ELSE 95

\* ratio in hundredths
score_current_ratio(ratio) ==
    IF ratio > 200 THEN 5
    ELSE IF ratio > 150 THEN 15
    ELSE IF ratio > 120 THEN 35
    ELSE IF ratio > 100 THEN 60
    ELSE 90

\* de_ratio = num / den, den > 0
score_debt_to_equity(num, den) ==
    IF 2 * num < den THEN 5
    ELSE IF num < den THEN 15
    ELSE IF 2 * num < 3 * den THEN 30
    ELSE IF num < 2 * den THEN 50
    ELSE IF num < 3 * den THEN 75
    ELSE 95

\* months = num / den, den > 0
score_cash_runway(num, den) ==
    IF num > 12 * den THEN 5
    ELSE IF num > 9 * den THEN 20
    ELSE IF num > 6 * den THEN 40
    ELSE IF num > 3 * den THEN 70
    ELSE 95

\* margin (percent) = num / den, den > 0
score_ebitda_margin(num, den) ==
    IF num > 25 * den THEN 5
    ELSE IF num > 20 * den THEN 15
    ELSE IF num > 15 * den THEN 25
    ELSE IF num > 10 * den THEN 40
    ELSE IF num > 5 * den THEN 65
    ELSE 90

\* growth in tenths of a percent
score_revenue_growth(growth) ==
    IF growth > 200 THEN 10
    ELSE IF growth > 100 THEN 20
    ELSE IF growth > 50 THEN 30
    ELSE IF growth > 0 THEN 45
    ELSE IF growth > -50 THEN 70
    ELSE 95

score_revenue_trend(qoq_growth) ==
    IF qoq_growth > 50 THEN 10
    ELSE IF qoq_growth > 0 THEN 25
    ELSE IF qoq_growth > -20 THEN 40
    ELSE IF qoq_growth > -50 THEN 65
    ELSE 90

score_payment_days(days, trend) ==
    IF trend = "decreasing" THEN 10
    ELSE IF days < 30 THEN 25
    ELSE IF days < 45 THEN 50
    ELSE IF trend = "increasing" /\ days > 45 THEN 75
    ELSE 95

\* the medium band starting one point late
get_risk_category_late(risk_score) ==
    IF risk_score <= 35 THEN "stable"
    ELSE IF risk_score < 60 THEN "medium"
    ELSE "critical"

get_risk_category(risk_score) ==
    IF risk_score < 35 THEN "stable"
    ELSE IF risk_score < 60 THEN "medium"
    ELSE "critical"

\* ------------------------------------------------------------------------
\* State
\* ------------------------------------------------------------------------
VARIABLES
    smes_df,            \* risk_engine.smes_df: master table, loaded at import
    scenario_smes_df,   \* ScenarioService.smes_df: the same file, own copy
    app_smes_df,        \* app.services ScenarioService.smes_df: backend/data/smes.csv
    departures_df,      \* RiskEngine._departures_df
    employees_df,       \* RiskEngine._employees_df
    traffic_df,         \* RiskEngine._traffic_df
    news_df,            \* RiskEngine._news_df
    companies_df,       \* RiskEngine._companies_df
    response,           \* outcome of the latest call, as its caller sees it
    scored,             \* per SME id, the last two records its scorings returned
    calls,              \* number of calls handled so far
    arg_score,          \* argument of _get_risk_category
    ret_category,       \* its return value, << >> before the call
    arg_tier,           \* arguments of the tier selection of _build_recommendations
    ret_tier,           \* the tier it selects, << >> before the call
    jobs,               \* scenario_job_service._jobs: job id -> job dict
    tasks,              \* per job id, where its asyncio task _run_job stands
    observed,           \* per job id, the statuses a poller has seen, in order
    clock,              \* datetime.now(), as a count of the job steps so far
    active_connections, \* ConnectionManager.active_connections: the list of sockets
    broadcast           \* the coroutine ConnectionManager.broadcast: where it stands

vars == << smes_df, scenario_smes_df, app_smes_df, departures_df, employees_df, traffic_df,
           news_df, companies_df, response, scored, calls, arg_score,
           ret_category, arg_tier, ret_tier, jobs, tasks, observed, clock,
           active_connections, broadcast >>

\* the calls of the pure helpers checked on their own
pure_io == << arg_score, ret_category, arg_tier, ret_tier >>

\* the job store, its background tasks and what a poller has seen
job_state == << jobs, tasks, observed, clock >>

\* the websocket connection manager and its broadcast in progress
ws_state == << active_connections, broadcast >>

tables == << smes_df, scenario_smes_df, app_smes_df, departures_df,
             employees_df, traffic_df, news_df, companies_df >>

\* df[df[col].astype(str) == sme_id_str]
RowsOf(df, sme_id) ==
    LET Match(r) == r.sme_id = sme_id
    IN  SelectSeq(df, Match)

\* ------------------------------------------------------------------------
\* Component calculators
\* ------------------------------------------------------------------------
calc_financial_score(sme) ==
    LET dscr          == sme.debt_service_coverage
        current_ratio == sme.current_ratio
        de_num        == sme.debt
        de_den        == Max(sme.revenue - sme.debt, 1)
        \* cash / (revenue / 12 * 0.85) = 240 cash / (17 revenue)
        runway_num    == IF sme.revenue > 0 THEN 240 * sme.cash_reserves ELSE 12
        runway_den    == IF sme.revenue > 0 THEN 17 * sme.revenue ELSE 1
        margin_num    == IF sme.revenue > 0 THEN 100 * sme.ebitda ELSE 0
        margin_den    == IF sme.revenue > 0 THEN sme.revenue ELSE 1
    IN  score_dscr(dscr)                          * 30 +
        score_current_ratio(current_ratio)        * 25 +
        score_debt_to_equity(de_num, de_den)      * 20 +
        score_cash_runway(runway_num, runway_den) * 15 +
        score_ebitda_margin(margin_num, margin_den) * 10

calc_operational_score(sme) ==
    LET revenue_growth == sme.trend_value
        payment_days   == IF sme.trend = "stable" THEN 35 ELSE 47
        payment_trend  == IF sme.trend = "down" THEN "increasing" ELSE "stable"
    IN  score_revenue_growth(revenue_growth)             * 40 +
        score_revenue_trend(revenue_growth)              * 30 +
        score_payment_days(payment_days, payment_trend)  * 30

calc_market_score(sme) ==
    LET sector_score == Get(SECTOR_BASE_RISK, sme.sector, 40)
        competitive_score ==
            IF sme.revenue > 5000000 THEN 15
            ELSE IF sme.revenue > 3000000 THEN 30
            ELSE IF sme.revenue > 1500000 THEN 50
            ELSE 75
        geo_score ==
            IF sme.geography = "UK"
            THEN (IF sme.trend = "up" THEN 15 ELSE 20)
            ELSE IF sme.geography = "EU" THEN 30
            ELSE 40
    IN  sector_score * 40 + competitive_score * 30 + geo_score * 30

\* the employee block reading iloc[0] of an empty table, outside any try
employee_score_unguarded(sme_id) ==
    LET departures == RowsOf(departures_df, sme_id)
        emp_data   == RowsOf(employees_df, sme_id)
        IsCLevel(r) == r.seniority = "C-Level"
        c_level_departures == Len(SelectSeq(departures, IsCLevel))
    IN  IF emp_data = << >> THEN Raised
        ELSE IF c_level_departures >= 2 THEN 85
        ELSE IF c_level_departures = 1 THEN 70
        ELSE IF emp_data[1].trend = "down" THEN 55
        ELSE IF emp_data[1].trend = "up" THEN 15
        ELSE 30

\* 1. employee signals
employee_score(sme_id) ==
    LET departures == RowsOf(departures_df, sme_id)
        emp_data   == RowsOf(employees_df, sme_id)
        IsCLevel(r) == r.seniority = "C-Level"
        c_level_departures == Len(SelectSeq(departures, IsCLevel))
        emp_trend  == IF emp_data # << >> THEN emp_data[1].trend ELSE "stable"
    IN  IF c_level_departures >= 2 THEN 85
        ELSE IF c_level_departures = 1 THEN 70
        ELSE IF emp_trend = "down" THEN 55
        ELSE IF emp_trend = "up" THEN 15
        ELSE 30

\* 2. web traffic signals; every comparison with NaN is false
traffic_score(sme_id) ==
    LET traffic_data == RowsOf(traffic_df, sme_id)
    IN  IF traffic_data # << >>
        THEN LET traffic_change == traffic_data[1].users_change_qoq
             IN  IF traffic_change = NaN THEN 30
                 ELSE IF traffic_change < -40 THEN 95
                 ELSE IF traffic_change < -25 THEN 75
                 ELSE IF traffic_change < -10 THEN 50
                 ELSE IF traffic_change > 10 THEN 15
                 ELSE 30
        ELSE 50

\* 3. news sentiment; avg_sentiment = sum / count, sentiment in tenths
news_score(sme_id) ==
    LET news_data == RowsOf(news_df, sme_id)
        IsCritical(r) == r.severity = "critical"
        critical_events == Len(SelectSeq(news_data, IsCritical))
        n   == Len(news_data)
        sum == SumSeq([i \in 1..n |-> news_data[i].sentiment_score])
    IN  IF news_data # << >>
        THEN IF critical_events >= 2 \/ sum < -7 * n THEN 95
             ELSE IF critical_events = 1 \/ sum < -4 * n THEN 70
             ELSE IF sum > 5 * n THEN 15
             ELSE 30
        ELSE 30

\* 4. Companies House flags: the body of the try block; int(NaN) raises
companies_house_body(sme_id) ==
    LET company_data == RowsOf(companies_df, sme_id)
    IN  IF company_data # << >>
        THEN LET row == company_data[1]
             IN  IF row.director_changes_12m = NaN \/ row.ccj_count = NaN
                 THEN Raised
                 ELSE IF row.insolvency_flag THEN 95
                 ELSE IF row.ccj_count >= 3 \/ row.director_changes_12m >= 3 THEN 80
                 ELSE IF row.ccj_count >= 1 \/ row.director_changes_12m >= 2 THEN 50
                 ELSE 20
        ELSE 30

\* try: ... except Exception: companies_house_score = 30
companies_house_score(sme_id) ==
    IF companies_house_body(sme_id) = Raised THEN 30
    ELSE companies_house_body(sme_id)

\* An exception that leaves a block unhandled leaves the calculator
calc_alternative_data_score(sme_id) ==
    LET e == employee_score(sme_id)
        t == traffic_score(sme_id)
        n == news_score(sme_id)
        c == companies_house_score(sme_id)
    IN  IF Raised \in {e, t, n, c} THEN Raised
        ELSE e * 35 + t * 30 + n * 20 + c * 15

\* ------------------------------------------------------------------------
\* Rating and PD helpers
\* ------------------------------------------------------------------------
score_to_indicative_grade(score) ==
    IF score <= 20 THEN "AAA"
    ELSE IF score <= 28 THEN "AA"
    ELSE IF score <= 35 THEN "A"
    ELSE IF score <= 42 THEN "BBB+"
    ELSE IF score <= 50 THEN "BBB"
    ELSE IF score <= 57 THEN "BB+"
    ELSE IF score <= 63 THEN "BB"
    ELSE IF score <= 70 THEN "B"
    ELSE IF score <= 78 THEN "CCC"
    ELSE IF score <= 88 THEN "CC"
    ELSE "C"

InSeq(seq, x) == \E i \in 1..Len(seq) : seq[i] = x

\* list.index(x)
IndexOf(seq, x) == CHOOSE i \in 1..Len(seq) : seq[i] = x /\ \A j \in 1..(i - 1) : seq[j] # x

rating_gap_notches(indicative_grade, bank_rating) ==
    IF InSeq(RATING_NOTCHES, indicative_grade) /\ InSeq(RATING_NOTCHES, bank_rating)
    THEN IndexOf(RATING_NOTCHES, indicative_grade) - IndexOf(RATING_NOTCHES, bank_rating)
    ELSE 0

\* e^(-k) for k = 0..9, in 1e-4
ExpNegInt == << 10000, 3679, 1353, 498, 183, 67, 25, 9, 3, 1 >>

\* e^(-f/100) for 0 <= f < 100, in 1e-4, by its Taylor series
RECURSIVE ExpNegFracTerms(_, _, _)
ExpNegFracTerms(f, n, term) ==
    IF term = 0 \/ n > 12 THEN 0
    ELSE LET next == (term * f) \div (100 * n)
         IN  (IF n % 2 = 1 THEN -next ELSE next) + ExpNegFracTerms(f, n + 1, next)

ExpNegFrac(f) == 10000 + ExpNegFracTerms(f, 1, 10000)

\* math.exp(-x) for x = x100/100 >= 0, in 1e-4
ExpNeg(x100) ==
    LET k == x100 \div 100
    IN  IF k > 9 THEN 0
        ELSE (ExpNegInt[k + 1] * ExpNegFrac(x100 % 100)) \div 10000

\* 1 / (1 + e^(-z)) for z = z100/100, in 1e-4
Logistic(z100) ==
    IF z100 >= 0
    THEN 100000000 \div (10000 + ExpNeg(z100))
    ELSE (10000 * ExpNeg(-z100)) \div (10000 + ExpNeg(-z100))

\* the category multiplier applied after the cap
calc_default_probability_uncapped(risk_score, sme) ==
    LET beta_2 == Get(SECTOR_BETA, sme.sector, 0)
        beta_3 == IF sme.revenue < 1000000 THEN -100
                  ELSE IF sme.revenue < 3000000 THEN -50
                  ELSE IF sme.revenue < 5000000 THEN 0
                  ELSE 50
        z       == -520 + 12 * risk_score + beta_2 + beta_3
        pd_base == Logistic(z)
        risk_category == sme.risk_category
        multiplier == IF risk_category = "critical" THEN 14
                      ELSE IF risk_category = "medium" THEN 11
                      ELSE 9
    IN  (Min(pd_base * 10, 95000) * multiplier) \div 10

\* in 1e-5
calc_default_probability(risk_score, sme) ==
    LET beta_2 == Get(SECTOR_BETA, sme.sector, 0)
        beta_3 == IF sme.revenue < 1000000 THEN -100
                  ELSE IF sme.revenue < 3000000 THEN -50
                  ELSE IF sme.revenue < 5000000 THEN 0
                  ELSE 50
        z       == -520 + 12 * risk_score + beta_2 + beta_3
        pd_base == Logistic(z)
        risk_category == sme.risk_category
        multiplier == IF risk_category = "critical" THEN 14
                      ELSE IF risk_category = "medium" THEN 11
                      ELSE 9
    IN  Min(pd_base * multiplier, 95000)

\* ------------------------------------------------------------------------
\* Active signals and score narrative
\* ------------------------------------------------------------------------
\* 'CEO' in role.upper(), on the role strings of the model
RoleContains(role, tag) ==
    CASE tag = "CEO" -> role \in { "CEO", "Interim ceo" }
      [] tag = "CFO" -> role \in { "CFO", "Group CFO" }
      [] tag = "CTO" -> role \in { "CTO" }

Signal(kind, detail, weight) ==
    [ label |-> [ kind |-> kind, detail |-> detail ], impact |-> weight ]

departure_signal(dep) ==
    IF RoleContains(dep.role, "CEO")
    THEN Signal("CEO departure", dep.name, SIGNAL_WEIGHTS.ceo_departure)
    ELSE IF RoleContains(dep.role, "CFO")
    THEN Signal("CFO departure", dep.name, SIGNAL_WEIGHTS.cfo_departure)
    ELSE IF RoleContains(dep.role, "CTO")
    THEN Signal("CTO departure", dep.name, SIGNAL_WEIGHTS.cto_departure)
    ELSE IF dep.seniority = "C-Level"
    THEN Signal("C-level departure", dep.name, SIGNAL_WEIGHTS.c_level_departure)
    ELSE Signal("Director change", dep.name, SIGNAL_WEIGHTS.director_change)

departure_signals(sme_id) ==
    LET departures == RowsOf(departures_df, sme_id)
    IN  [ i \in 1..Len(departures) |-> departure_signal(departures[i]) ]

traffic_signals(sme_id) ==
    LET traffic_data == RowsOf(traffic_df, sme_id)
    IN  IF traffic_data # << >>
        THEN LET change == traffic_data[1].users_change_qoq
             IN  IF change = NaN THEN << >>
                 ELSE IF change < -40
                 THEN << Signal("Web traffic QoQ", ToString(change),
                                SIGNAL_WEIGHTS.web_traffic_drop_40) >>
                 ELSE IF change < -25
                 THEN << Signal("Web traffic QoQ", ToString(change),
                                SIGNAL_WEIGHTS.web_traffic_drop_25) >>
                 ELSE IF change > 10
                 THEN << Signal("Web traffic QoQ", "+" \o ToString(change),
                                SIGNAL_WEIGHTS.strong_trading) >>
                 ELSE << >>
        ELSE << >>

news_signals(sme_id) ==
    LET news_data == RowsOf(news_df, sme_id)
        IsCritical(r) == r.severity = "critical"
        critical == SelectSeq(news_data, IsCritical)
    IN  [ i \in 1..Len(critical) |->
            Signal("news", critical[i].headline, SIGNAL_WEIGHTS.bad_press) ]

\* the insolvency signal is appended before int(ccj_count) can raise;
\* bool(NaN) is True
company_signals(sme_id) ==
    LET company_data == RowsOf(companies_df, sme_id)
    IN  IF company_data # << >>
        THEN LET row == company_data[1]
                 insolvency ==
                     IF row.insolvency_flag
                     THEN << Signal("Insolvency flag raised", "",
                                    SIGNAL_WEIGHTS.insolvency_flag) >>
                     ELSE << >>
                 ccj ==
                     IF row.ccj_count # NaN /\ row.ccj_count > 0
                     THEN << Signal("CCJ(s) registered", ToString(row.ccj_count),
                                    SIGNAL_WEIGHTS.payment_delays) >>
                     ELSE << >>
             IN  insolvency \o ccj
        ELSE << >>

\* list.sort(key=abs(impact), reverse=True): stable, biggest movers first
RECURSIVE InsertSignal(_, _)
InsertSignal(sorted, x) ==
    IF sorted = << >> THEN << x >>
    ELSE IF Abs(Head(sorted).impact) >= Abs(x.impact)
         THEN << Head(sorted) >> \o InsertSignal(Tail(sorted), x)
         ELSE << x >> \o sorted

RECURSIVE SortSignals(_, _)
SortSignals(sorted, rest) ==
    IF rest = << >> THEN sorted
    ELSE SortSignals(InsertSignal(sorted, Head(rest)), Tail(rest))

get_active_signals_for_sme(sme_id) ==
    SortSignals(<< >>, departure_signals(sme_id) \o traffic_signals(sme_id)
                       \o news_signals(sme_id) \o company_signals(sme_id))

\* seq[:n]
Take(seq, n) == SubSeq(seq, 1, Min(n, Len(seq)))

build_score_delta_narrative(score_current, score_previous, active_signals) ==
    LET delta == score_current - score_previous
    IN  IF Abs(delta) < 2 \/ active_signals = << >>
        THEN [ kind |-> "stable", previous |-> score_current,
               current |-> score_current, direction |-> "", delta |-> 0,
               parts |-> << >> ]
        ELSE [ kind |-> "moved", previous |-> score_previous,
               current |-> score_current,
               direction |-> IF delta > 0 THEN "up" ELSE "down",
               delta |-> Abs(delta),
               parts |-> Take(active_signals, 3) ]

\* ------------------------------------------------------------------------
\* RiskEngine.calculate_risk_score
\* ------------------------------------------------------------------------
Ok(record) == [ status |-> "ok", detail |-> "", body |-> << record >> ]

Raise(kind, detail) == [ status |-> kind, detail |-> detail, body |-> << >> ]

\* the four components weighted alike, in 1/10000 point
composite_score_flat(financial_score, operational_score, market_score, alt_data_score) ==
    financial_score * 25 + operational_score * 25 +
    market_score * 25 + alt_data_score * 25

\* the weighted composite, in 1/10000 point
composite_score(financial_score, operational_score, market_score, alt_data_score) ==
    financial_score * 40 + operational_score * 25 +
    market_score * 20 + alt_data_score * 15

\* max(0, min(100, risk_score)) without round(): the composite stays a
\* fraction, here in 1/10000 point
clamp_unrounded(risk_score) == Max(0, Min(1000000, risk_score))

\* round(max(0, min(100, risk_score)))
clamp_round(risk_score) == Round(Max(0, Min(1000000, risk_score)), 10000)

risk_record(sme_id, sme) ==
    LET financial_score   == calc_financial_score(sme)
        operational_score == calc_operational_score(sme)
        market_score      == calc_market_score(sme)
        alt_data_score    == calc_alternative_data_score(sme_id)
        risk_score        == clamp_round(composite_score(financial_score,
                                 operational_score, market_score, alt_data_score))
        risk_category     == get_risk_category(risk_score)
        pd_12m            == calc_default_probability(risk_score, sme)
        indicative_grade  == score_to_indicative_grade(risk_score)
        gap_notches       == rating_gap_notches(indicative_grade, sme.bank_rating)
        active_signals    == get_active_signals_for_sme(sme_id)
    IN  [ sme_id                  |-> sme_id,
          sme_name                |-> sme.name,
          risk_score              |-> risk_score,
          risk_category           |-> risk_category,
          default_probability_12m |-> Round(pd_12m, 100),
          components |-> [ financial        |-> Round(financial_score, 10),
                           operational      |-> Round(operational_score, 10),
                           market           |-> Round(market_score, 10),
                           alternative_data |-> Round(alt_data_score, 10) ],
          indicative_grade        |-> indicative_grade,
          bank_rating             |-> sme.bank_rating,
          rating_gap_notches      |-> gap_notches,
          pd_original             |-> sme.pd_original,
          pd_adjusted             |-> sme.pd_adjusted,
          score_previous          |-> sme.score_previous,
          score_narrative         |-> build_score_delta_narrative(
                                          risk_score, sme.score_previous, active_signals),
          active_signals          |-> Take(active_signals, 5),
          exposure                |-> sme.exposure,
          sector                  |-> sme.sector,
          geography               |-> sme.geography,
          bank_rating_stale       |-> gap_notches >= 2 ]

\* the lookup without its emptiness check: iloc[0] of no rows raises IndexError
calculate_risk_score_unchecked(sme_id) ==
    LET Match(r) == r.id = sme_id
        sme_row  == SelectSeq(smes_df, Match)
    IN  IF sme_row = << >>
        THEN Raise("IndexError", "single positional indexer is out-of-bounds")
        ELSE IF calc_alternative_data_score(sme_id) = Raised
             THEN Raise("Exception", "alternative data")
             ELSE Ok(risk_record(sme_id, sme_row[1]))

calculate_risk_score(sme_id) ==
    LET Match(r) == r.id = sme_id
        sme_row  == SelectSeq(smes_df, Match)
    IN  IF sme_row = << >>
        THEN Raise("ValueError", "SME " \o sme_id \o " not found")
        ELSE IF calc_alternative_data_score(sme_id) = Raised
             THEN Raise("Exception", "alternative data")
             ELSE Ok(risk_record(sme_id, sme_row[1]))

\* the loop without its try/except: the first failed scoring ends the batch
batch_calculate_risk_scores_no_catch(sme_ids) ==
    IF \E i \in 1..Len(sme_ids) : calculate_risk_score(sme_ids[i]).status # "ok"
    THEN LET i == CHOOSE i \in 1..Len(sme_ids) :
                      /\ calculate_risk_score(sme_ids[i]).status # "ok"
                      /\ \A j \in 1..(i - 1) : calculate_risk_score(sme_ids[j]).status = "ok"
         IN  calculate_risk_score(sme_ids[i])
    ELSE [ status |-> "ok", detail |-> "",
           body   |-> [ i \in 1..Len(sme_ids) |->
                          calculate_risk_score(sme_ids[i]).body[1] ] ]

\* RiskEngine.batch_calculate_risk_scores: one entry per id, in order;
\* except Exception turns a failed scoring into an error descriptor
batch_calculate_risk_scores(sme_ids) ==
    [ status |-> "ok", detail |-> "",
      body   |-> [ i \in 1..Len(sme_ids) |->
                     LET r == calculate_risk_score(sme_ids[i])
                     IN  IF r.status = "ok" THEN r.body[1]
                         ELSE [ sme_id |-> sme_ids[i], error |-> r.detail ] ] ]

\* ------------------------------------------------------------------------
\* Scenario service: constants
\* ------------------------------------------------------------------------
\* sector sensitivity multipliers, hundredths
SECTOR_MULTIPLIERS ==
    [ s \in { "Construction", "Retail/Fashion", "Food/Hospitality",
              "Manufacturing", "Marketing Services", "Transportation",
              "Logistics", "Software/Technology", "Professional Services",
              "Energy/Utilities", "Healthcare" } |->
        CASE s = "Construction"          -> 150
          [] s = "Retail/Fashion"        -> 130
          [] s = "Food/Hospitality"      -> 125
          [] s = "Manufacturing"         -> 110
          [] s = "Marketing Services"    -> 100
          [] s = "Transportation"        -> 100
          [] s = "Logistics"             -> 100
          [] s = "Software/Technology"   -> 80
          [] s = "Professional Services" -> 70
          [] s = "Energy/Utilities"      -> 85
          [] s = "Healthcare"            -> 60 ]

\* score points per 1% of GDP contraction, in 1/1000 point per tenth of a percent
GDP_PD_FACTOR == 200

\* score points per 1pp of unemployment, in 1/1000 point per tenth of a pp
UNEMPLOYMENT_PD_FACTOR == 150

REAL_ESTATE_SECTORS == { "Construction", "Food/Hospitality" }

\* the critical threshold of the scenario engine
CriticalThreshold == 60

\* one score point, in the unit of a per-SME increase (1000 * 1500)
Point == 1500000

\* the multiplier 1.0, in 1/1500
UnitMultiplier == 1500

\* the table of hundredths in 1/1500
ScaledMultipliers(table) == [ s \in DOMAIN table |-> table[s] * 15 ]

\* ------------------------------------------------------------------------
\* Scenario service: base increase and multiplier table of each scenario
\* ------------------------------------------------------------------------
interest_rate_bps(params) ==
    Get(params, "rate_change", Get(params, "rate_increase_bps", 200))

\* the lowest band charging its full 2.5 points whatever the rate
interest_rate_base_flat_band(params) ==
    LET rate_bps == interest_rate_bps(params)
    IN  IF rate_bps <= 100 THEN 2500
        ELSE IF rate_bps <= 200 THEN 2500 + 25 * (rate_bps - 100)
        ELSE 5000 + 30 * (rate_bps - 200)

interest_rate_base(params) ==
    LET rate_bps == interest_rate_bps(params)
    IN  IF rate_bps <= 100 THEN 25 * rate_bps
        ELSE IF rate_bps <= 200 THEN 2500 + 25 * (rate_bps - 100)
        ELSE 5000 + 30 * (rate_bps - 200)

eba_2025_adverse_base(params) ==
    LET rate_bps   == Get(params, "rate_change", 200)
        gdp_change == Get(params, "gdp_change", -60)
        unemp      == Get(params, "unemployment_change", 50)
    IN  25 * rate_bps + Abs(gdp_change) * GDP_PD_FACTOR
        + unemp * UNEMPLOYMENT_PD_FACTOR

\* re_extra * 0.1 = abs(re_shock) / 100 / 0.15 * 0.1 = abs(re_shock) / 150
eba_2025_adverse_multipliers(params) ==
    LET re_shock == Get(params, "real_estate_shock", -35)
        base     == ScaledMultipliers(SECTOR_MULTIPLIERS)
    IN  [ s \in DOMAIN base |->
            IF s \in REAL_ESTATE_SECTORS THEN base[s] + 10 * Abs(re_shock)
            ELSE base[s] ]

recession_base(params) ==
    LET gdp_change == Get(params, "gdp_change", -35)
        unemp      == Get(params, "unemployment_change", 30)
        severity   == Get(params, "severity", "moderate")
    IN  IF gdp_change # 0 \/ unemp # 0
        THEN Abs(gdp_change) * GDP_PD_FACTOR + unemp * UNEMPLOYMENT_PD_FACTOR
        ELSE IF severity = "mild" THEN 3000
        ELSE IF severity = "moderate" THEN 7000
        ELSE IF severity = "severe" THEN 12000
        ELSE 7000

sector_shock_base(params) ==
    LET severity == Get(params, "severity", 7)
        gdp_drag == Get(params, "gdp_change", -20)
    IN  Abs(gdp_drag) * GDP_PD_FACTOR + severity * 500

\* {s: 0.3 for s in SECTOR_MULTIPLIERS}, then [sector] = 3.0 * severity
sector_shock_multipliers(params) ==
    LET sector   == Get(params, "sector", "Retail/Fashion")
        severity == Get(params, "severity", 7)
    IN  [ s \in DOMAIN SECTOR_MULTIPLIERS \cup { sector } |->
            IF s = sector THEN 450 * severity ELSE 450 ]

macro_shock_base(params) ==
    LET gdp_change == Get(params, "gdp_change", -20)
        unemp      == Get(params, "unemployment_change", 10)
        severity   == Get(params, "severity", 5)
    IN  Abs(gdp_change) * GDP_PD_FACTOR + unemp * UNEMPLOYMENT_PD_FACTOR
        + severity * 300

\* the "parameters" entry each handler puts into its result
result_parameters(handler, params) ==
    CASE handler = "interest_rate" ->
            [ rate_change_bps |-> interest_rate_bps(params) ]
      [] handler = "eba_2025_adverse" ->
            [ rate_change_bps        |-> Get(params, "rate_change", 200),
              gdp_change_pct         |-> Get(params, "gdp_change", -60),
              unemployment_change_pp |-> Get(params, "unemployment_change", 50),
              real_estate_shock_pct  |-> Get(params, "real_estate_shock", -35) ]
      [] handler = "recession" ->
            [ gdp_change_pct         |-> Get(params, "gdp_change", -35),
              unemployment_change_pp |-> Get(params, "unemployment_change", 30),
              severity               |-> Get(params, "severity", "moderate") ]
      [] handler = "sector_shock" ->
            [ sector       |-> Get(params, "sector", "Retail/Fashion"),
              severity     |-> Get(params, "severity", 7),
              gdp_drag_pct |-> Get(params, "gdp_change", -20) ]
      [] handler = "macro_shock" -> params

\* the dispatch with the generic macro handler as its else branch
scenario_handler_lenient(scenario_type) ==
    IF scenario_type = "interest_rate" THEN "interest_rate"
    ELSE IF scenario_type = "sector_shock" THEN "sector_shock"
    ELSE IF scenario_type \in { "recession", "economic" } THEN "recession"
    ELSE IF scenario_type \in { "eba_2025_adverse", "eba_adverse" } THEN "eba_2025_adverse"
    ELSE "macro_shock"

\* the handler run_scenario dispatches to
scenario_handler(scenario_type) ==
    IF scenario_type = "interest_rate" THEN "interest_rate"
    ELSE IF scenario_type = "sector_shock" THEN "sector_shock"
    ELSE IF scenario_type \in { "recession", "economic" } THEN "recession"
    ELSE IF scenario_type \in { "eba_2025_adverse", "eba_adverse" } THEN "eba_2025_adverse"
    ELSE IF scenario_type \in { "geopolitical", "climate_transition", "regulation" }
    THEN "macro_shock"
    ELSE "unknown"

base_pd_increase(handler, params) ==
    CASE handler = "interest_rate"    -> interest_rate_base(params)
      [] handler = "sector_shock"     -> sector_shock_base(params)
      [] handler = "recession"        -> recession_base(params)
      [] handler = "eba_2025_adverse" -> eba_2025_adverse_base(params)
      [] handler = "macro_shock"      -> macro_shock_base(params)

sector_multipliers(handler, params) ==
    CASE handler = "sector_shock"     -> sector_shock_multipliers(params)
      [] handler = "eba_2025_adverse" -> eba_2025_adverse_multipliers(params)
      [] OTHER                        -> ScaledMultipliers(SECTOR_MULTIPLIERS)

\* ------------------------------------------------------------------------
\* ScenarioService._apply_vectors
\* ------------------------------------------------------------------------
\* the reason string of an SME record, by its three variable parts
reason_text(sector, base_pd, multiplier) ==
    [ sector      |-> sector,
      sensitivity |-> IF multiplier >= 1950 THEN "high sensitivity"
                      ELSE IF multiplier >= 1500 THEN "moderate sensitivity"
                      ELSE "low sensitivity",
      multiplier  |-> multiplier,
      base_pd     |-> base_pd ]

\* current_risk + risk_increase with no upper limit
uncapped_risk(current_risk, risk_increase) ==
    current_risk * Point + risk_increase

\* min(current_risk + risk_increase, 100), in 1/Point of a score point
capped_risk(current_risk, risk_increase) ==
    Min(current_risk * Point + risk_increase, 100 * Point)

\* the loop body with went_critical decided by the new score alone
sme_vector_no_before(sme, base, multipliers) ==
    LET sector        == sme.sector
        current_risk  == sme.risk_score
        multiplier    == Get(multipliers, sector, UnitMultiplier)
        risk_increase == base * multiplier
        new_risk      == capped_risk(current_risk, risk_increase)
    IN  [ risk_increase |-> risk_increase,
          new_risk      |-> new_risk,
          is_impacted   |-> risk_increase >= 2 * Point,
          went_critical |-> new_risk >= CriticalThreshold * Point,
          sme_record    |-> [ smeId       |-> sme.id,
                              smeName     |-> sme.name,
                              sector      |-> sector,
                              geography   |-> sme.geography,
                              scoreBefore |-> current_risk,
                              scoreAfter  |-> Round(new_risk, Point \div 10),
                              change      |-> Round(risk_increase, Point \div 10),
                              exposure    |-> sme.exposure,
                              reason      |-> reason_text(sector, base, multiplier) ] ]

\* the loop body, up to the three decisions taken for one SME
sme_vector(sme, base, multipliers) ==
    LET sector        == sme.sector
        current_risk  == sme.risk_score
        multiplier    == Get(multipliers, sector, UnitMultiplier)
        risk_increase == base * multiplier
        new_risk      == capped_risk(current_risk, risk_increase)
    IN  [ risk_increase |-> risk_increase,
          new_risk      |-> new_risk,
          is_impacted   |-> risk_increase >= 2 * Point,
          went_critical |-> current_risk < CriticalThreshold
                            /\ new_risk >= CriticalThreshold * Point,
          sme_record    |-> [ smeId       |-> sme.id,
                              smeName     |-> sme.name,
                              sector      |-> sector,
                              geography   |-> sme.geography,
                              scoreBefore |-> current_risk,
                              scoreAfter  |-> Round(new_risk, Point \div 10),
                              change      |-> Round(risk_increase, Point \div 10),
                              exposure    |-> sme.exposure,
                              reason      |-> reason_text(sector, base, multiplier) ] ]

\* the sector aggregation done inside the "impacted" branch only
add_to_sector_map_impacted_only(sector_map, sme, v) ==
    LET known == \E i \in 1..Len(sector_map) : sector_map[i].sector = sme.sector
        rows  == IF known THEN sector_map
                 ELSE Append(sector_map,
                             [ sector |-> sme.sector, smes |-> 0,
                               totalExposure |-> 0, newCritical |-> 0,
                               total_change |-> 0 ])
    IN  IF ~v.is_impacted THEN sector_map
        ELSE [ i \in 1..Len(rows) |->
                IF rows[i].sector = sme.sector
                THEN [ sector        |-> rows[i].sector,
                       smes          |-> rows[i].smes + 1,
                       totalExposure |-> rows[i].totalExposure + sme.exposure,
                       newCritical   |-> rows[i].newCritical
                                         + (IF v.went_critical THEN 1 ELSE 0),
                       total_change  |-> rows[i].total_change + v.risk_increase ]
                ELSE rows[i] ]

\* sector_map after one more SME: a new row at the end for a new sector
add_to_sector_map(sector_map, sme, v) ==
    LET known == \E i \in 1..Len(sector_map) : sector_map[i].sector = sme.sector
        rows  == IF known THEN sector_map
                 ELSE Append(sector_map,
                             [ sector |-> sme.sector, smes |-> 0,
                               totalExposure |-> 0, newCritical |-> 0,
                               total_change |-> 0 ])
    IN  [ i \in 1..Len(rows) |->
            IF rows[i].sector = sme.sector
            THEN [ sector        |-> rows[i].sector,
                   smes          |-> rows[i].smes + 1,
                   totalExposure |-> rows[i].totalExposure + sme.exposure,
                   newCritical   |-> rows[i].newCritical
                                     + (IF v.went_critical THEN 1 ELSE 0),
                   total_change  |-> rows[i].total_change + v.risk_increase ]
            ELSE rows[i] ]

\* for _, sme in self.smes_df.iterrows(): ...
RECURSIVE apply_vectors_loop(_, _, _, _)
apply_vectors_loop(rows, base, multipliers, acc) ==
    IF rows = << >> THEN acc
    ELSE LET sme == Head(rows)
             v   == sme_vector(sme, base, multipliers)
         IN  apply_vectors_loop(Tail(rows), base, multipliers,
                 [ impacted     |-> IF v.is_impacted
                                    THEN Append(acc.impacted, v.sme_record)
                                    ELSE acc.impacted,
                   new_critical |-> IF v.went_critical
                                    THEN Append(acc.new_critical, v.sme_record)
                                    ELSE acc.new_critical,
                   sector_map   |-> add_to_sector_map(acc.sector_map, sme, v) ])

\* avgChange = round(_total_change / smes, 1), in tenths
finalise_sector(sm) ==
    [ sector        |-> sm.sector,
      smes          |-> sm.smes,
      avgChange     |-> IF sm.smes # 0
                        THEN Round(sm.total_change, (Point \div 10) * sm.smes)
                        ELSE 0,
      totalExposure |-> sm.totalExposure,
      newCritical   |-> sm.newCritical ]

\* the loop run with no sector multiplier at all: every SME at 1.0
apply_vectors_unit_multiplier(base, multipliers) ==
    LET acc == apply_vectors_loop(scenario_smes_df, base, << >>,
                   [ impacted |-> << >>, new_critical |-> << >>,
                     sector_map |-> << >> ])
    IN  [ impacted     |-> acc.impacted,
          new_critical |-> acc.new_critical,
          sector_map   |-> [ i \in 1..Len(acc.sector_map) |->
                               finalise_sector(acc.sector_map[i]) ] ]

apply_vectors(base, multipliers) ==
    LET acc == apply_vectors_loop(scenario_smes_df, base, multipliers,
                   [ impacted |-> << >>, new_critical |-> << >>,
                     sector_map |-> << >> ])
    IN  [ impacted     |-> acc.impacted,
          new_critical |-> acc.new_critical,
          sector_map   |-> [ i \in 1..Len(acc.sector_map) |->
                               finalise_sector(acc.sector_map[i]) ] ]

\* ------------------------------------------------------------------------
\* ScenarioService._build_result
\* ------------------------------------------------------------------------
\* sorted(rows, key=Key, reverse=True): stable, largest first
RECURSIVE InsertDesc(_, _, _)
InsertDesc(sorted, x, field) ==
    IF sorted = << >> THEN << x >>
    ELSE IF Head(sorted)[field] >= x[field]
         THEN << Head(sorted) >> \o InsertDesc(Tail(sorted), x, field)
         ELSE << x >> \o sorted

RECURSIVE SortDesc(_, _, _)
SortDesc(sorted, rest, field) ==
    IF rest = << >> THEN sorted
    ELSE SortDesc(InsertDesc(sorted, Head(rest), field), Tail(rest), field)

\* num / den > limit, for den > 0
RatioGreater(num, den, limit) ==
    (num \div den) > limit \/ ((num \div den) = limit /\ num % den > 0)

\* estimated_loss_current = num / den
\* TIER_THRESHOLDS
TIER_THRESHOLDS ==
    [ ultra_conservative |-> [ min_new_critical |-> 20, min_loss_gbp |-> 10000000 ],
      conservative       |-> [ min_new_critical |-> 10, min_loss_gbp |-> 5000000 ] ]

\* "Determine warranted tier": the loss is loss_num / loss_den
warranted_tier(new_critical_count, loss_num, loss_den) ==
    IF new_critical_count > TIER_THRESHOLDS.ultra_conservative.min_new_critical
       \/ RatioGreater(loss_num, loss_den,
                       TIER_THRESHOLDS.ultra_conservative.min_loss_gbp)
    THEN "ultra_conservative"
    ELSE IF new_critical_count > TIER_THRESHOLDS.conservative.min_new_critical
            \/ RatioGreater(loss_num, loss_den,
                            TIER_THRESHOLDS.conservative.min_loss_gbp)
    THEN "conservative"
    ELSE "moderate"

\* the three reserves scaled from the loss itself, RESERVE_MULTIPLIER left out
build_recommendations_unscaled(new_critical_count, loss_num, loss_den) ==
    [ warranted_tier         |-> warranted_tier(new_critical_count, loss_num, loss_den),
      reserve_ultra          |-> Round(3 * loss_num, 2 * loss_den),
      reserve_cons           |-> Round(loss_num, loss_den),
      reserve_mod            |-> Round(loss_num, 2 * loss_den),
      new_critical_count     |-> new_critical_count,
      estimated_loss_current |-> Round(loss_num, loss_den) ]

\* the reserve_* fields are the amounts handed to fmt_gbp
build_recommendations(new_critical_count, loss_num, loss_den) ==
    [ warranted_tier         |-> warranted_tier(new_critical_count, loss_num, loss_den),
      \* round(loss * RESERVE_MULTIPLIER * 1.5), RESERVE_MULTIPLIER = 1.5
      reserve_ultra          |-> Round(9 * loss_num, 4 * loss_den),
      \* round(loss * RESERVE_MULTIPLIER)
      reserve_cons           |-> Round(3 * loss_num, 2 * loss_den),
      \* round(loss * RESERVE_MULTIPLIER * 0.5)
      reserve_mod            |-> Round(3 * loss_num, 4 * loss_den),
      new_critical_count     |-> new_critical_count,
      estimated_loss_current |-> Round(loss_num, loss_den) ]

\* the projection with the year-2 increment below the year-1 increment
loss_projection_dipping(el_num, el_den) ==
    [ current |-> Round(el_num, el_den),
      year1   |-> Round(23 * el_num, 20 * el_den),
      year2   |-> Round(21 * el_num, 20 * el_den),
      year3   |-> Round(13 * el_num, 10 * el_den) ]

\* estimated_loss: additional_el_year0 = el_num / el_den, then x1.15, x1.25,
\* x1.30, each figure rounded to a whole unit
loss_projection(el_num, el_den) ==
    [ current |-> Round(el_num, el_den),
      year1   |-> Round(23 * el_num, 20 * el_den),
      year2   |-> Round(5 * el_num, 4 * el_den),
      year3   |-> Round(13 * el_num, 10 * el_den) ]

build_result(handler, parameters, impacted, new_critical, sector_map) ==
    LET all_smes        == scenario_smes_df
        total_smes      == Len(all_smes)
        IsCritical(r)   == r.risk_category = "critical"
        critical_before == Len(SelectSeq(all_smes, IsCritical))
        critical_after  == critical_before + Len(new_critical)
        \* round(mean(risk_score), 1), in tenths
        avg_score_before ==
            Round(10 * SumSeq([ i \in 1..total_smes |-> all_smes[i].risk_score ]),
                  total_smes)
        impacted_change ==
            SumSeq([ i \in 1..Len(impacted) |-> impacted[i].change ])
        avg_score_after ==
            Round(avg_score_before * total_smes + impacted_change, total_smes)
        \* round(mean(pd_original), 2), in hundredths of a percent
        pd_before ==
            Round(SumSeq([ i \in 1..total_smes |-> all_smes[i].pd_original ]),
                  total_smes)
        pd_after == Round(pd_before * (total_smes + Len(new_critical)), total_smes)
        \* exposure of the newly critical SMEs, in tenths
        new_critical_exposure ==
            SumSeq([ i \in 1..Len(new_critical) |-> new_critical[i].exposure ])
        \* additional_el_year0 = exposure * (n / total) * LGD
        \*                     = exposure10 * n * 9 / (200 * total)
        el_num == new_critical_exposure * Len(new_critical) * 9
        el_den == 200 * Max(total_smes, 1)
        estimated_loss == loss_projection(el_num, el_den)
        sorted_sectors == SortDesc(<< >>, sector_map, "avgChange")
        sector_impact ==
            [ i \in 1..Len(sorted_sectors) |->
                LET sm == sorted_sectors[i]
                IN  [ sector        |-> sm.sector,
                      smes          |-> sm.smes,
                      avgChange     |-> sm.avgChange,
                      newCritical   |-> sm.newCritical,
                      totalExposure |-> Round(sm.totalExposure, 10),
                      \* totalExposure * (newCritical / smes) * pd_uplift * LGD
                      estimatedLoss |->
                          Round(sm.totalExposure * sm.newCritical
                                    * Len(new_critical) * 9,
                                200 * Max(sm.smes, 1) * Max(total_smes, 1)) ] ]
        portfolio_impact ==
            [ criticalBefore      |-> critical_before,
              criticalAfter       |-> critical_after,
              avgScoreBefore      |-> avg_score_before,
              avgScoreAfter       |-> avg_score_after,
              defaultProbBefore   |-> pd_before,
              defaultProbAfter    |-> pd_after,
              totalExposure       |->
                  Round(SumSeq([ i \in 1..total_smes |-> all_smes[i].exposure ]), 10),
              newCriticalExposure |-> Round(new_critical_exposure, 10) ]
    IN  [ scenario        |-> handler,
          parameters      |-> parameters,
          portfolioImpact |-> portfolio_impact,
          estimatedLoss   |-> estimated_loss,
          sectorImpact    |-> sector_impact,
          topImpacted     |-> Take(SortDesc(<< >>, impacted, "change"), 10),
          newCriticalSMEs |-> Take(new_critical, 20),
          recommendations |-> build_recommendations(Len(new_critical),
                                                    el_num, el_den) ]

\* ScenarioService.run_scenario
run_scenario(scenario_type, parameters) ==
    LET handler == scenario_handler(scenario_type)
    IN  IF handler = "unknown"
        THEN Raise("ValueError", "Unknown scenario type: " \o scenario_type)
        ELSE LET v == apply_vectors(base_pd_increase(handler, parameters),
                                    sector_multipliers(handler, parameters))
             IN  Ok(build_result(handler, result_parameters(handler, parameters),
                                 v.impacted, v.new_critical, v.sector_map))

\* ------------------------------------------------------------------------
\* app.services.scenario_service.ScenarioService._simulate_sector_shock
\* ------------------------------------------------------------------------
\* risk_increase = abs(revenue_impact_pct) * 1.5, kept here in half points
app_simulate_sector_shock(params) ==
    LET sector             == Get(params, "sector", "Retail/Fashion")
        revenue_impact_pct == Get(params, "revenue_impact_pct", -20)
        InSector(r)        == r.sector = sector
        sector_smes        == SelectSeq(app_smes_df, InSector)
        risk_increase2     == 3 * Abs(revenue_impact_pct)
        NewRisk2(sme)      == Min(2 * sme.risk_score + risk_increase2, 200)
        impacted_smes ==
            [ i \in 1..Len(sector_smes) |->
                [ id            |-> sector_smes[i].id,
                  name          |-> sector_smes[i].name,
                  current_risk  |-> sector_smes[i].risk_score,
                  new_risk      |-> NewRisk2(sector_smes[i]) \div 2,
                  risk_increase |-> risk_increase2 \div 2,
                  exposure      |-> sector_smes[i].exposure,
                  revenue       |-> sector_smes[i].revenue ] ]
        WentCritical(sme)  == sme.risk_score < 60 /\ NewRisk2(sme) >= 120
        critical_rows      == SelectSeq(sector_smes, WentCritical)
        new_critical_smes ==
            [ i \in 1..Len(critical_rows) |->
                [ id       |-> critical_rows[i].id,
                  name     |-> critical_rows[i].name,
                  new_risk |-> NewRisk2(critical_rows[i]) \div 2,
                  exposure |-> critical_rows[i].exposure ] ]
        total_sector_exposure ==
            SumSeq([ i \in 1..Len(impacted_smes) |-> impacted_smes[i].exposure ])
        total_new_critical_exposure ==
            SumSeq([ i \in 1..Len(new_critical_smes) |-> new_critical_smes[i].exposure ])
    IN  \* len(new_critical_smes) / len(sector_smes): int / int
        IF Len(sector_smes) = 0
        THEN Raise("ZeroDivisionError", "division by zero")
        ELSE Ok([ scenario   |-> "Sector Shock",
                  parameters |-> [ sector             |-> sector,
                                   revenue_impact_pct |-> revenue_impact_pct ],
                  impact |->
                      [ total_smes_in_sector  |-> Len(sector_smes),
                        total_sector_exposure |-> total_sector_exposure,
                        new_critical_count    |-> Len(new_critical_smes),
                        new_critical_exposure |-> total_new_critical_exposure,
                        \* tenths of a percent
                        pct_of_sector_critical |->
                            Round(1000 * Len(new_critical_smes), Len(sector_smes)),
                        \* tenths
                        estimated_additional_defaults |-> 4 * Len(new_critical_smes),
                        \* hundredths
                        estimated_loss |-> Round(18 * total_new_critical_exposure, 10) ],
                  impacted_smes     |-> Take(SortDesc(<< >>, impacted_smes, "new_risk"), 15),
                  new_critical_smes |-> new_critical_smes ])

\* ------------------------------------------------------------------------
\* Contents of the data files the services load
\* ------------------------------------------------------------------------
SmeIds == << "0001", "0002", "0003", "0004" >>

UnknownId == "9999"

MkRow(id, sc, rt, mo, ot) ==
    [ id                    |-> id,
      name                  |-> "SME " \o id,
      sector                |-> sc.sector,
      geography             |-> sc.geography,
      risk_score            |-> sc.risk_score,
      risk_category         |-> sc.risk_category,
      exposure              |-> sc.exposure,
      pd_original           |-> sc.pd_original,
      pd_adjusted           |-> sc.pd_original + 40,
      debt_service_coverage |-> rt.debt_service_coverage,
      current_ratio         |-> rt.current_ratio,
      revenue               |-> mo.revenue,
      debt                  |-> mo.debt,
      cash_reserves         |-> mo.cash_reserves,
      ebitda                |-> mo.ebitda,
      trend                 |-> ot.trend,
      trend_value           |-> ot.trend_value,
      score_previous        |-> ot.score_previous,
      bank_rating           |-> ot.bank_rating ]

Sc(sector, geography, risk_score, risk_category, exposure, pd_original) ==
    [ sector |-> sector, geography |-> geography, risk_score |-> risk_score,
      risk_category |-> risk_category, exposure |-> exposure,
      pd_original |-> pd_original ]

Rt(dscr, current_ratio) ==
    [ debt_service_coverage |-> dscr, current_ratio |-> current_ratio ]

Mo(revenue, debt, cash_reserves, ebitda) ==
    [ revenue |-> revenue, debt |-> debt, cash_reserves |-> cash_reserves,
      ebitda |-> ebitda ]

Ot(trend, trend_value, score_previous, bank_rating) ==
    [ trend |-> trend, trend_value |-> trend_value,
      score_previous |-> score_previous, bank_rating |-> bank_rating ]

RatioParts ==
    { Rt(90, 80), Rt(130, 130), Rt(260, 210), Rt(110, 160), Rt(160, 110),
      Rt(210, 90) }

MoneyParts ==
    { Mo(6000000, 500000, 6000000, 1800000),
      Mo(900000, 850000, 100000, 27000),
      Mo(0, 100, 0, 0),
      Mo(2000000, 900000, 1000000, 240000),
      Mo(4000000, 3000000, 1000000, 900000),
      Mo(1600000, 2000000, 700000, 100000) }

TrendValues == { -60, -30, -10, 30, 80, 150, 250 }

\* rows of the scoring sweep: one SME, every band of every step table
ScoreRows ==
    { MkRow(SmeIds[1], sc, rt, mo, Ot(trend, tv, 50, "BBB")) :
        sc \in { Sc("Construction", "NA", 40, cat, 1000005, 210) :
                    cat \in { "critical", "medium", "stable" } }
           \cup { Sc("Healthcare", "UK", 40, "stable", 15, 90),
                  Sc("Agriculture", "EU", 70, "critical", 250000, 320),
                  Sc("Transportation", "UK", 61, "medium", 5, 150) },
        rt \in RatioParts, mo \in MoneyParts,
        trend \in { "up", "stable", "down" }, tv \in TrendValues }

BestRow ==
    MkRow(SmeIds[1], Sc("Healthcare", "UK", 20, "stable", 15, 90),
          Rt(260, 210), Mo(6000000, 500000, 6000000, 1800000),
          Ot("stable", 250, 24, "AA"))

WorstRow ==
    MkRow(SmeIds[1], Sc("Construction", "NA", 80, "critical", 1000005, 900),
          Rt(90, 80), Mo(900000, 850000, 100000, 27000),
          Ot("up", -60, 60, "BB+"))

\* rows of the portfolio specifications; stored score and category are what
\* the file holds, not what the engine would compute
PortfolioRow(i, k) ==
    CASE k = 1 -> MkRow(SmeIds[i], Sc("Construction", "UK", 58, "medium", 1000005, 210),
                        Rt(130, 130), Mo(2000000, 900000, 1000000, 240000),
                        Ot("down", -30, 50, "BBB"))
      [] k = 2 -> MkRow(SmeIds[i], Sc("Healthcare", "EU", 59, "critical", 15, 320),
                        Rt(90, 80), Mo(900000, 850000, 100000, 27000),
                        Ot("up", -60, 60, "BB+"))
      [] k = 3 -> MkRow(SmeIds[i], Sc("Agriculture", "NA", 55, "medium", 250005, 150),
                        Rt(260, 210), Mo(6000000, 500000, 6000000, 1800000),
                        Ot("stable", 250, 24, "AA"))
      [] k = 4 -> MkRow(SmeIds[i], Sc("Construction", "UK", 62, "medium", 333335, 400),
                        Rt(110, 160), Mo(4000000, 3000000, 1000000, 900000),
                        Ot("stable", 30, 70, "ZZ"))
      [] k = 5 -> MkRow(SmeIds[i], Sc("Healthcare", "UK", 30, "stable", 25, 90),
                        Rt(210, 90), Mo(0, 100, 0, 0),
                        Ot("up", 80, 40, "A"))
      [] k = 6 -> MkRow(SmeIds[i], Sc("Retail/Fashion", "EU", 99, "critical", 0, 900),
                        Rt(160, 110), Mo(1600000, 2000000, 700000, 100000),
                        Ot("down", -10, 90, "CCC"))
      [] k = 7 -> MkRow(SmeIds[i], Sc("Transportation", "UK", 45, "stable", 500000, 120),
                        Rt(130, 130), Mo(2000000, 900000, 1000000, 240000),
                        Ot("stable", 150, 45, "BBB+"))
      [] k = 8 -> MkRow(SmeIds[i], Sc("Construction", "NA", 60, "critical", 5, 500),
                        Rt(90, 80), Mo(900000, 850000, 100000, 27000),
                        Ot("down", -60, 61, "B"))

\* portfolios of 1..MaxSmes SMEs with distinct ids, rows of the kinds `kinds`
Portfolios(kinds) ==
    UNION { { [ i \in 1..n |-> PortfolioRow(i, f[i]) ] : f \in [ 1..n -> kinds ] } :
            n \in 1..MaxSmes }

Dep(sme_id, role, seniority, name) ==
    [ sme_id |-> sme_id, role |-> role, seniority |-> seniority, name |-> name ]

Emp(sme_id, trend) == [ sme_id |-> sme_id, trend |-> trend ]

Tr(sme_id, users_change_qoq) ==
    [ sme_id |-> sme_id, users_change_qoq |-> users_change_qoq ]

News(sme_id, severity, sentiment_score, headline) ==
    [ sme_id |-> sme_id, severity |-> severity,
      sentiment_score |-> sentiment_score, headline |-> headline ]

Co(sme_id, director_changes_12m, ccj_count, insolvency_flag) ==
    [ sme_id |-> sme_id, director_changes_12m |-> director_changes_12m,
      ccj_count |-> ccj_count, insolvency_flag |-> insolvency_flag ]

\* per table, the row sets of the scoring sweep for SME 0001; some start with
\* a row of another SME
DepartureOptions ==
    { << >>,
      << Dep("0002", "CEO", "C-Level", "A. Other") >>,
      << Dep("0001", "Interim ceo", "C-Level", "B. Chief") >>,
      << Dep("0001", "Sales Director", "VP", "C. Sales") >>,
      << Dep("0002", "CTO", "C-Level", "A. Other"),
         Dep("0001", "COO", "C-Level", "D. Ops"),
         Dep("0001", "Group CFO", "C-Level", "E. Fin") >> }

EmployeeOptions ==
    { << >>, << Emp("0001", "up") >>, << Emp("0001", "down") >>,
      << Emp("0001", "stable") >>, << Emp("0002", "down"), Emp("0001", "up") >> }

TrafficOptions ==
    { << >>, << Tr("0001", -45) >>, << Tr("0001", -30) >>, << Tr("0001", -15) >>,
      << Tr("0001", 0) >>, << Tr("0001", 15) >>, << Tr("0001", NaN) >>,
      << Tr("0002", -45) >> }

NewsOptions ==
    { << >>,
      << News("0001", "critical", -8, "Fraud probe") >>,
      << News("0001", "critical", -5, "Profit warning") >>,
      << News("0001", "critical", -3, "Plant fire"),
         News("0001", "critical", 2, "Recall") >>,
      << News("0001", "info", 6, "Award") >>,
      << News("0001", "warning", -5, "Strike") >>,
      << News("0002", "critical", -9, "Other"), News("0001", "info", 0, "Note") >> }

CompanyOptions ==
    { << >>,
      << Co("0001", 0, 0, TRUE) >>,
      << Co("0001", 0, 3, FALSE) >>,
      << Co("0001", 2, 0, FALSE) >>,
      << Co("0001", 0, 1, FALSE) >>,
      << Co("0001", 1, 0, FALSE) >>,
      << Co("0001", 0, NaN, TRUE) >>,
      << Co("0002", 3, 3, TRUE) >> }

\* the two table sets of the portfolio specifications
AltConfig(k) ==
    CASE k = 1 ->
        [ departures |-> << >>, employees |-> << >>, traffic |-> << >>,
          news |-> << >>, companies |-> << >> ]
      [] k = 2 ->
        [ departures |-> << Dep("0001", "CEO", "C-Level", "B. Chief"),
                            Dep("0001", "COO", "C-Level", "D. Ops"),
                            Dep("0002", "Sales Director", "VP", "C. Sales") >>,
          employees  |-> << Emp("0001", "down"), Emp("0003", "up") >>,
          traffic    |-> << Tr("0001", -45), Tr("0002", NaN), Tr("0003", 15) >>,
          news       |-> << News("0001", "critical", -8, "Fraud probe"),
                            News("0003", "info", 6, "Award") >>,
          companies  |-> << Co("0001", 0, 1, FALSE), Co("0002", 0, NaN, TRUE),
                            Co("0003", 0, 0, FALSE) >> ]

\* ------------------------------------------------------------------------
\* Requests
\* ------------------------------------------------------------------------
Req(scenario_type, parameters) ==
    [ scenario_type |-> scenario_type, parameters |-> parameters ]

\* the ids a client asks about: the ids of the master table and an absent one
RequestIds == { smes_df[i].id : i \in 1..Len(smes_df) } \cup { UnknownId }

BatchRequests == UNION { [ 1..n -> RequestIds ] : n \in 0..MaxBatch }

InterestRateParams ==
    { << >>, [ rate_increase_bps |-> 100 ], [ rate_change_bps |-> 0 ] }
    \cup { [ rate_change |-> r ] : r \in { -100, 0, 50, 100, 150, 200, 300 } }

RecessionParams ==
    { << >>,
      [ gdp_change |-> 0, unemployment_change |-> 0 ],
      [ gdp_change |-> 0, unemployment_change |-> 0, severity |-> "mild" ],
      [ gdp_change |-> 0, unemployment_change |-> 0, severity |-> "severe" ],
      [ gdp_change |-> 0, unemployment_change |-> 0, severity |-> "extreme" ],
      [ gdp_change |-> -10 ],
      [ gdp_change |-> 5, unemployment_change |-> 10, severity |-> "mild" ],
      [ gdp_change |-> -60, unemployment_change |-> 50 ],
      [ gdp_change |-> 0, unemployment_change |-> -300 ] }

SectorShockParams ==
    { << >> }
    \cup { [ sector |-> sec, severity |-> sev, gdp_change |-> g ] :
             sec \in { "Construction", "Agriculture", "Mining", "Healthcare" },
             sev \in { 0, 7, 10 }, g \in { -20, 0 } }
    \cup { [ sector |-> "Construction", severity |-> -10 ] }

EbaParams ==
    { << >>,
      [ rate_change |-> 0, gdp_change |-> 0, unemployment_change |-> 0,
        real_estate_shock |-> 0 ],
      [ real_estate_shock |-> 60 ],
      [ rate_change |-> 100, gdp_change |-> -20, unemployment_change |-> 10,
        real_estate_shock |-> -10 ],
      [ unemployment_change |-> -200 ] }

MacroParams ==
    { << >>,
      [ gdp_change |-> 0, unemployment_change |-> 0, severity |-> 0 ],
      [ gdp_change |-> -5, unemployment_change |-> 5, severity |-> 1,
        scenario_name |-> "Trade war" ],
      [ severity |-> -100 ],
      [ gdp_change |-> -40, unemployment_change |-> 30, severity |-> 10 ] }

UnknownScenarioTypes == { "", "foo", "Interest_Rate" }

ScenarioRequests ==
    { Req("interest_rate", p) : p \in InterestRateParams }
    \cup { Req(t, p) : t \in { "recession", "economic" }, p \in RecessionParams }
    \cup { Req("sector_shock", p) : p \in SectorShockParams }
    \cup { Req(t, p) : t \in { "eba_2025_adverse", "eba_adverse" }, p \in EbaParams }
    \cup { Req(t, p) : t \in { "geopolitical", "climate_transition", "regulation" },
                       p \in MacroParams }
    \cup { Req(t, p) : t \in UnknownScenarioTypes,
                       p \in { << >>, [ rate_change |-> 100 ] } }

\* params of the app-level _simulate_sector_shock
AppSectorShockParams ==
    { << >> }
    \cup { [ sector |-> sec, revenue_impact_pct |-> pct ] :
             sec \in { "Construction", "Mining", "Healthcare" },
             pct \in { -20, 0, 3 } }

\* estimated_loss_current values handed to the tier selection, in halves of a
\* unit: zero, and each threshold with the values next to it
TierLosses ==
    { 0, 1 }
    \cup { 2 * TIER_THRESHOLDS[t].min_loss_gbp + d :
             t \in DOMAIN TIER_THRESHOLDS, d \in { -2, -1, 0, 1, 2 } }

\* the batch requests of the interleaving specification: the first id with an
\* unknown one, and the first MaxBatch ids of the master record in order
FewBatchRequests ==
    { << smes_df[1].id, UnknownId >>,
      [ i \in 1..Min(MaxBatch, Len(smes_df)) |-> smes_df[i].id ] }

\* the scenario requests of the interleaving specification
FewScenarioRequests ==
    { Req("interest_rate", << >>),
      Req("sector_shock", [ sector |-> "Construction", severity |-> 10 ]),
      Req("recession", [ gdp_change |-> 0, unemployment_change |-> 0 ]),
      Req("foo", << >>) }

\* ------------------------------------------------------------------------
\* Operations
\* ------------------------------------------------------------------------
NoResponse ==
    [ op |-> "none", args |-> << >>, http |-> 0, status |-> "",
      detail |-> "", body |-> << >> ]

\* the last two records returned for an id, latest first
Remember(previous, record) == Take(<< record >> \o previous, 2)

\* the scoring persisting its result as the next call's previous score
CalculateRiskWriteBack(sme_id) ==
    LET r == calculate_risk_score(sme_id)
    IN  /\ response' = [ op     |-> "calculate_risk",
                         args   |-> sme_id,
                         http   |-> IF r.status = "ok" THEN 200
                                    ELSE IF r.status = "ValueError" THEN 404
                                    ELSE 500,
                         status |-> r.status,
                         detail |-> r.detail,
                         body   |-> r.body ]
        /\ scored' = IF r.status = "ok"
                     THEN [ scored EXCEPT ![sme_id] = Remember(@, r.body[1]) ]
                     ELSE scored
        /\ calls' = calls + 1
        /\ smes_df' = [ i \in 1..Len(smes_df) |->
                          IF smes_df[i].id = sme_id /\ r.status = "ok"
                          THEN [ smes_df[i] EXCEPT !.score_previous = r.body[1].risk_score ]
                          ELSE smes_df[i] ]
        /\ UNCHANGED << scenario_smes_df, app_smes_df, departures_df, employees_df, traffic_df,
                        news_df, companies_df, pure_io, job_state, ws_state >>

\* GET /api/v1/risk/calculate/{sme_id}: ValueError -> 404, any other -> 500
CalculateRisk(sme_id) ==
    LET r == calculate_risk_score(sme_id)
    IN  /\ response' = [ op     |-> "calculate_risk",
                         args   |-> sme_id,
                         http   |-> IF r.status = "ok" THEN 200
                                    ELSE IF r.status = "ValueError" THEN 404
                                    ELSE 500,
                         status |-> r.status,
                         detail |-> r.detail,
                         body   |-> r.body ]
        /\ scored' = IF r.status = "ok"
                     THEN [ scored EXCEPT ![sme_id] = Remember(@, r.body[1]) ]
                     ELSE scored
        /\ calls' = calls + 1
        /\ UNCHANGED << tables, ws_state, pure_io, job_state >>

\* the records of the scorings a batch performed, appended in order
RECURSIVE RememberAll(_, _)
RememberAll(memory, records) ==
    IF records = << >> THEN memory
    ELSE RememberAll(
             IF "risk_score" \in DOMAIN Head(records)
             THEN [ memory EXCEPT ![Head(records).sme_id] = Remember(@, Head(records)) ]
             ELSE memory,
             Tail(records))

\* POST /api/v1/risk/batch: any exception -> 500
CalculateBatchRisk(sme_ids) ==
    LET r == batch_calculate_risk_scores(sme_ids)
    IN  /\ response' = [ op     |-> "calculate_batch_risk",
                         args   |-> sme_ids,
                         http   |-> IF r.status = "ok" THEN 200 ELSE 500,
                         status |-> r.status,
                         detail |-> r.detail,
                         body   |-> r.body ]
        /\ scored' = RememberAll(scored, r.body)
        /\ calls' = calls + 1
        /\ UNCHANGED << tables, ws_state, pure_io, job_state >>

\* ScenarioService.run_scenario(scenario_type, parameters), awaited by its
\* caller: the outcome is the method's own, no HTTP status is involved
RunScenario(req) ==
    LET r == run_scenario(req.scenario_type, req.parameters)
    IN  /\ response' = [ op     |-> "run_scenario",
                         args   |-> req,
                         http   |-> 0,
                         status |-> r.status,
                         detail |-> r.detail,
                         body   |-> r.body ]
        /\ calls' = calls + 1
        /\ UNCHANGED << tables, ws_state, scored, pure_io, job_state >>

\* app.services ScenarioService.run_scenario("sector_shock", params)
AppRunSectorShock(params) ==
    LET r == app_simulate_sector_shock(params)
    IN  /\ response' = [ op     |-> "app_run_scenario",
                         args   |-> Req("sector_shock", params),
                         http   |-> 0,
                         status |-> r.status,
                         detail |-> r.detail,
                         body   |-> r.body ]
        /\ calls' = calls + 1
        /\ UNCHANGED << tables, ws_state, scored, pure_io, job_state >>

\* RiskEngine._get_risk_category(arg_score)
GetRiskCategory ==
    /\ ret_category = << >>
    /\ ret_category' = << get_risk_category(arg_score) >>
    /\ UNCHANGED << tables, ws_state, response, scored, calls, arg_score, arg_tier, ret_tier,
                    job_state >>

\* the tier selection of _build_recommendations for arg_tier
GetWarrantedTier ==
    /\ ret_tier = << >>
    /\ ret_tier' = << warranted_tier(arg_tier.new_critical_count,
                                      arg_tier.loss_halves, 2) >>
    /\ UNCHANGED << tables, ws_state, response, scored, calls, arg_score, ret_category,
                    arg_tier, job_state >>

\* the job dict create_job stores under a fresh job id
new_job_pending(job_id, scenario_type, parameters, now) ==
    [ job_id        |-> job_id,
      status        |-> "pending",
      scenario_type |-> scenario_type,
      parameters    |-> parameters,
      created_at    |-> now,
      completed_at  |-> << >>,
      progress      |-> 0,
      result        |-> << >>,
      error         |-> << >> ]

new_job(job_id, scenario_type, parameters, now) ==
    [ job_id        |-> job_id,
      status        |-> "running",
      scenario_type |-> scenario_type,
      parameters    |-> parameters,
      created_at    |-> now,
      completed_at  |-> << >>,
      progress      |-> 0,
      result        |-> << >>,
      error         |-> << >> ]

\* _run_job without its except block: a raising run_scenario ends the task
\* and leaves the record as it was at the await
run_job_no_except(job, r, now) ==
    LET started == [ job EXCEPT !.progress = 10 ]
    IN  IF r.status = "ok"
        THEN [ started EXCEPT !.status = "completed",
                              !.progress = 100,
                              !.result = r.body,
                              !.completed_at = << now >> ]
        ELSE started

\* the job dict when _run_job returns: progress 10, then the update of the
\* try block (r is what run_scenario returned) or of the except block
run_job(job, r, now) ==
    LET started == [ job EXCEPT !.progress = 10 ]
    IN  IF r.status = "ok"
        THEN [ started EXCEPT !.status = "completed",
                              !.progress = 100,
                              !.result = r.body,
                              !.completed_at = << now >> ]
        ELSE [ started EXCEPT !.status = "failed",
                              !.progress = 0,
                              !.error = << r.detail >>,
                              !.completed_at = << now >> ]

\* asyncio.create_task schedules _run_job once for a job; the event loop runs
\* a task that is scheduled and never one that has returned
runnable_again(job_id) == tasks[job_id] \in { "scheduled", "done" }

runnable(job_id) == tasks[job_id] = "scheduled"

\* POST /api/v1/scenarios/run: create_job stores the record, schedules the
\* task and returns the job id; nothing of _run_job has run when it returns
CreateJob(req) ==
    LET job_id == Len(jobs) + 1
    IN  /\ Len(jobs) < MaxJobs
        /\ jobs' = Append(jobs, new_job(job_id, req.scenario_type,
                                        req.parameters, clock))
        /\ tasks' = Append(tasks, "scheduled")
        /\ observed' = Append(observed, << >>)
        /\ clock' = clock + 1
        /\ response' = [ op     |-> "create_job",
                         args   |-> req,
                         http   |-> 200,
                         status |-> "ok",
                         detail |-> "",
                         body   |-> << [ job_id |-> job_id,
                                         status |-> "running" ] >> ]
        /\ UNCHANGED << tables, ws_state, scored, calls, pure_io >>

\* the event loop running the task of job_id: run_scenario and the handlers
\* it awaits never suspend, so _run_job runs from its first line to its
\* return with no other coroutine in between
RunJob(job_id) ==
    /\ job_id \in DOMAIN jobs
    /\ runnable(job_id)
    /\ LET job == jobs[job_id]
           r   == run_scenario(job.scenario_type, job.parameters)
       IN  jobs' = [ jobs EXCEPT ![job_id] = run_job(job, r, clock) ]
    /\ tasks' = [ tasks EXCEPT ![job_id] = "done" ]
    /\ clock' = clock + 1
    /\ UNCHANGED << tables, ws_state, response, scored, calls, pure_io, observed >>

\* ScenarioJobService.get_job_result: None unless the job is completed
get_job_result(job_id) ==
    IF job_id \notin DOMAIN jobs THEN << >>
    ELSE IF jobs[job_id].status # "completed" THEN << >>
    ELSE jobs[job_id].result

GetJobResult(job_id) ==
    /\ response' = [ op     |-> "get_job_result",
                     args   |-> << job_id >>,
                     http   |-> 0,
                     status |-> "ok",
                     detail |-> "",
                     body   |-> get_job_result(job_id) ]
    /\ UNCHANGED << tables, ws_state, scored, calls, pure_io, job_state >>

\* the polls recorded so far, over all jobs
RECURSIVE PollCount(_)
PollCount(seen) ==
    IF seen = << >> THEN 0 ELSE Len(Head(seen)) + PollCount(Tail(seen))

\* GET /api/v1/scenarios/{job_id}/status
GetScenarioStatus(job_id) ==
    /\ job_id \in DOMAIN jobs => PollCount(observed) < MaxPolls
    /\ response' = IF job_id \in DOMAIN jobs
                   THEN [ op     |-> "get_scenario_status",
                          args   |-> << job_id >>,
                          http   |-> 200,
                          status |-> "ok",
                          detail |-> "",
                          body   |-> << jobs[job_id] >> ]
                   ELSE [ op     |-> "get_scenario_status",
                          args   |-> << job_id >>,
                          http   |-> 404,
                          status |-> "HTTPException",
                          detail |-> "Job not found",
                          body   |-> << >> ]
    /\ observed' = IF job_id \in DOMAIN jobs
                   THEN [ observed EXCEPT
                            ![job_id] = Append(@, jobs[job_id].status) ]
                   ELSE observed
    /\ UNCHANGED << tables, ws_state, scored, calls, pure_io, jobs, tasks, clock >>

\* ------------------------------------------------------------------------
\* Specifications
\* ------------------------------------------------------------------------
\* no helper is being called on its own
NoPureCall ==
    /\ arg_score = 0
    /\ ret_category = << "stable" >>
    /\ arg_tier = [ new_critical_count |-> 0, loss_halves |-> 0 ]
    /\ ret_tier = << "moderate" >>

\* manager = ConnectionManager(): no socket accepted, no broadcast under way
NoConnections ==
    /\ active_connections = << >>
    /\ broadcast = [ state |-> "idle", index |-> 0, connection |-> 0,
                     delivered |-> {}, stayed |-> {} ]

\* _jobs: Dict[str, Dict[str, Any]] = {}
NoJobs ==
    /\ jobs = << >>
    /\ tasks = << >>
    /\ observed = << >>
    /\ clock = 0

InitTables(portfolio, departures, employees, traffic, news, companies) ==
    /\ smes_df = portfolio
    /\ scenario_smes_df = portfolio
    /\ app_smes_df = portfolio
    /\ departures_df = departures
    /\ employees_df = employees
    /\ traffic_df = traffic
    /\ news_df = news
    /\ companies_df = companies
    /\ response = NoResponse
    /\ scored = [ id \in { portfolio[i].id : i \in 1..Len(portfolio) }
                         \cup { UnknownId } |-> << >> ]
    /\ calls = 0

InitConfig(portfolio, k) ==
    InitTables(portfolio, AltConfig(k).departures, AltConfig(k).employees,
               AltConfig(k).traffic, AltConfig(k).news, AltConfig(k).companies)

\* Scoring and scenario calls in any order over a small portfolio
Init ==
    /\ \E portfolio \in Portfolios({ 1, 2 }) : InitConfig(portfolio, 2)
    /\ NoPureCall
    /\ NoJobs
    /\ NoConnections

Next ==
    /\ calls < MaxCalls
    /\ \/ \E sme_id \in RequestIds : CalculateRisk(sme_id)
       \/ \E sme_ids \in FewBatchRequests : CalculateBatchRisk(sme_ids)
       \/ \E req \in FewScenarioRequests : RunScenario(req)

Spec == Init /\ [][Next]_vars

\* Scoring of one SME over every band of its inputs
InitScore ==
    /\ \/ \E row \in ScoreRows, k \in { 1, 2 } : InitConfig(<< row >>, k)
       \/ \E row \in { BestRow, WorstRow },
             departures \in DepartureOptions, employees \in EmployeeOptions,
             traffic \in TrafficOptions, news \in NewsOptions,
             companies \in CompanyOptions :
             InitTables(<< row >>, departures, employees, traffic, news, companies)
    /\ NoPureCall
    /\ NoJobs
    /\ NoConnections

NextScore ==
    /\ response = NoResponse
    /\ \E sme_id \in RequestIds : CalculateRisk(sme_id)

SpecScore == InitScore /\ [][NextScore]_vars

\* Batch scoring of every list of up to MaxBatch ids
InitBatch ==
    /\ \E portfolio \in Portfolios({ 1, 2 }), k \in { 1, 2 } : InitConfig(portfolio, k)
    /\ NoPureCall
    /\ NoJobs
    /\ NoConnections

NextBatch ==
    /\ response = NoResponse
    /\ \E sme_ids \in BatchRequests : CalculateBatchRisk(sme_ids)

SpecBatch == InitBatch /\ [][NextBatch]_vars

\* Scenario runs over portfolios of every row kind
InitScenario ==
    /\ \E portfolio \in Portfolios(1..8) : InitConfig(portfolio, 1)
    /\ NoPureCall
    /\ NoJobs
    /\ NoConnections

NextScenario ==
    /\ response = NoResponse
    /\ \/ \E req \in ScenarioRequests : RunScenario(req)
       \/ \E params \in AppSectorShockParams : AppRunSectorShock(params)

SpecScenario == InitScenario /\ [][NextScenario]_vars

\* The tier selection on every count up to MaxTierCount and on losses at and
\* around both loss thresholds
InitTier ==
    /\ InitConfig(<< PortfolioRow(1, 1) >>, 1)
    /\ arg_score = 0
    /\ ret_category = << "stable" >>
    /\ arg_tier \in [ new_critical_count : 0..MaxTierCount, loss_halves : TierLosses ]
    /\ ret_tier = << >>
    /\ NoJobs
    /\ NoConnections

NextTier == GetWarrantedTier

SpecTier == InitTier /\ [][NextTier]_vars

\* _get_risk_category on every score
InitCategory ==
    /\ InitConfig(<< PortfolioRow(1, 1) >>, 1)
    /\ arg_score \in 0..MaxScore
    /\ ret_category = << >>
    /\ arg_tier = [ new_critical_count |-> 0, loss_halves |-> 0 ]
    /\ ret_tier = << "moderate" >>
    /\ NoJobs
    /\ NoConnections

NextCategory == GetRiskCategory

SpecCategory == InitCategory /\ [][NextCategory]_vars

\* the scenarios a client starts as jobs: one that runs and one that raises
JobRequests ==
    { Req("interest_rate", [ rate_change |-> 100 ]), Req("foo", << >>) }

\* The job service: jobs created, run by the event loop and polled in any
\* order
InitJobs ==
    /\ \E k \in { 1, 2 } : InitConfig(<< PortfolioRow(1, k) >>, 2)
    /\ NoPureCall
    /\ NoJobs
    /\ NoConnections

NextJobs ==
    \/ \E req \in JobRequests : CreateJob(req)
    \/ \E job_id \in 1..MaxJobs : RunJob(job_id)
    \/ \E job_id \in 1..MaxJobs : GetScenarioStatus(job_id)

SpecJobs == InitJobs /\ [][NextJobs]_vars

\* the step RunJob(job_id) as the task table shows it
TaskRuns(job_id) ==
    /\ job_id \in DOMAIN tasks
    /\ runnable(job_id)
    /\ tasks' = [ tasks EXCEPT ![job_id] = "done" ]

\* The job service with a client that fetches results: jobs created, run by
\* the event loop and asked for their result in any order
NextJobResults ==
    \/ \E req \in JobRequests : CreateJob(req)
    \/ \E job_id \in 1..MaxJobs : RunJob(job_id)
    \/ \E job_id \in 1..MaxJobs : GetJobResult(job_id)

\* the event loop keeps running: a task that is scheduled is run
SpecJobsFair ==
    /\ InitJobs
    /\ [][NextJobResults]_vars
    /\ \A job_id \in 1..MaxJobs : WF_tasks(TaskRuns(job_id))

\* master rows of one SME in distress (DSCR 0.9, current ratio 0.8, debt 3.5
\* times equity, cash for 2 months, EBITDA 3% of revenue) and of one that is
\* not, over every band of the operational and market inputs
DistressedRows ==
    { MkRow(SmeIds[1], Sc(sector, geography, 40, "medium", 250000, 210), rt, mo,
            Ot(trend, tv, 50, "BBB")) :
        sector \in { "Professional Services", "Construction" },
        geography \in { "EU", "UK" },
        rt \in { Rt(90, 80) },
        mo \in { Mo(3600000, 2800000, 510000, 108000),
                 Mo(3600000, 900000, 1800000, 432000) },
        trend \in { "up", "stable", "down" }, tv \in TrendValues }

\* Scoring of the SME in distress, its secondary tables neutral or not
InitDistressed ==
    /\ \E row \in DistressedRows,
          employees \in { << >>, << Emp("0001", "stable") >>, << Emp("0001", "up") >> },
          traffic \in { << >>, << Tr("0001", 0) >>, << Tr("0001", -45) >> },
          news \in { << >>, << News("0001", "info", 6, "Award") >> },
          companies \in { << >>, << Co("0001", 0, 1, FALSE) >> } :
          InitTables(<< row >>, << >>, employees, traffic, news, companies)
    /\ NoPureCall
    /\ NoJobs
    /\ NoConnections

NextDistressed ==
    /\ response = NoResponse
    /\ \E sme_id \in RequestIds : CalculateRisk(sme_id)

SpecDistressed == InitDistressed /\ [][NextDistressed]_vars

\* ---------------------------------------------------------------------
\* api/v1/websocket.py: the connection manager and its broadcast
\* ---------------------------------------------------------------------

\* the sockets that can be open at once
MaxConnections == 3

WebSockets == 1..MaxConnections

\* the sockets in the list
connected(list) == { list[i] : i \in 1..Len(list) }

\* list.remove(x): the list without the first item equal to x
RECURSIVE list_remove(_, _)
list_remove(list, x) ==
    IF list = << >> THEN << >>
    ELSE IF Head(list) = x THEN Tail(list)
    ELSE << Head(list) >> \o list_remove(Tail(list), x)

\* for connection in self.active_connections: the list iterator keeps an
\* index into the live list; its next item is the one at that index, and the
\* loop ends when the index has reached the length the list has by then.
\* The coroutine then suspends on the send to that item.
next_connection(co) ==
    IF co.index < Len(active_connections)
    THEN [ co EXCEPT !.state = "sending",
                     !.connection = active_connections[co.index + 1],
                     !.index = co.index + 1 ]
    ELSE [ co EXCEPT !.state = "done", !.connection = 0 ]

\* websocket_endpoint -> manager.connect: accept, then append to the list
Connect(websocket) ==
    /\ websocket \notin connected(active_connections)
    /\ active_connections' = Append(active_connections, websocket)
    /\ UNCHANGED << tables, response, scored, calls, pure_io, job_state, broadcast >>

\* websocket_endpoint, either except branch -> manager.disconnect. It runs
\* while the broadcast is suspended or when none is under way; the socket
\* no longer stays in the list for the whole broadcast.
Disconnect(websocket) ==
    /\ websocket \in connected(active_connections)
    /\ active_connections' = list_remove(active_connections, websocket)
    /\ broadcast' = [ broadcast EXCEPT !.stayed = @ \ { websocket } ]
    /\ UNCHANGED << tables, response, scored, calls, pure_io, job_state >>

\* broadcast_update -> manager.broadcast: the loop is entered and runs up to
\* its first await
BroadcastStart ==
    /\ broadcast.state \in { "idle", "done" }
    /\ broadcast' = next_connection([ state |-> "idle", index |-> 0, connection |-> 0,
                                      delivered |-> {},
                                      stayed |-> connected(active_connections) ])
    /\ UNCHANGED << tables, response, scored, calls, pure_io, job_state,
                    active_connections >>

\* the awaited send_json returns, or raises on a socket closed meanwhile
\* (logged, the loop goes on); the loop runs up to its next await or ends
BroadcastResume ==
    /\ broadcast.state = "sending"
    /\ broadcast' = next_connection(
           [ broadcast EXCEPT !.delivered =
                 IF broadcast.connection \in connected(active_connections)
                 THEN @ \cup { broadcast.connection } ELSE @ ])
    /\ UNCHANGED << tables, response, scored, calls, pure_io, job_state,
                    active_connections >>

\* The tables are loaded as for the job store; the manager reads none
InitBroadcast ==
    /\ InitConfig(<< PortfolioRow(1, 1) >>, 2)
    /\ NoPureCall
    /\ NoJobs
    /\ NoConnections

NextBroadcast ==
    \/ \E websocket \in WebSockets : Connect(websocket)
    \/ \E websocket \in WebSockets : Disconnect(websocket)
    \/ BroadcastStart
    \/ BroadcastResume

SpecBroadcast == InitBroadcast /\ [][NextBroadcast]_vars

\* ------------------------------------------------------------------------
\* Properties
\* ------------------------------------------------------------------------
MasterIds == { smes_df[i].id : i \in 1..Len(smes_df) }

\* the keys of the record calculate_risk_score returns
RecordFields ==
    { "sme_id", "sme_name", "risk_score", "risk_category",
      "default_probability_12m", "components", "indicative_grade", "bank_rating",
      "rating_gap_notches", "pd_original", "pd_adjusted", "score_previous",
      "score_narrative", "active_signals", "exposure", "sector", "geography",
      "bank_rating_stale" }

\* the latest call scored one SME through calculate_risk_score
Scored == response.op = "calculate_risk"

ScoredRecord == response.body[1]

\* the secondary tables that hold no row for an SME
EmptyTablesFor(sme_id) ==
    { t \in { "departures", "employees", "traffic", "news", "companies" } :
        CASE t = "departures" -> RowsOf(departures_df, sme_id) = << >>
          [] t = "employees"  -> RowsOf(employees_df, sme_id) = << >>
          [] t = "traffic"    -> RowsOf(traffic_df, sme_id) = << >>
          [] t = "news"       -> RowsOf(news_df, sme_id) = << >>
          [] t = "companies"  -> RowsOf(companies_df, sme_id) = << >> }

\* C1: for every SME id of the master record, calculate_risk_score returns a
\* risk_score that is a whole number of points between 0 and 100.
C1_RiskScoreInRange ==
    (Scored /\ response.args \in MasterIds)
        => /\ response.status = "ok"
           /\ ScoredRecord.risk_score \in 0..100

\* a distressed SME scored near the top of the range
C1_Witness ==
    /\ Scored
    /\ response.args \in MasterIds
    /\ response.status = "ok"
    /\ ScoredRecord.risk_score >= 85

\* C2: _get_risk_category returns stable iff score < 35, medium iff
\* 35 <= score < 60, critical iff score >= 60, and no lower score gets a worse
\* category than a higher one.
CategoryRank(category) ==
    CASE category = "stable" -> 0
      [] category = "medium" -> 1
      [] category = "critical" -> 2

C2_CategoryBands ==
    (ret_category # << >>)
        => /\ (ret_category[1] = "stable") <=> (arg_score < 35)
           /\ (ret_category[1] = "medium") <=> (35 <= arg_score /\ arg_score < 60)
           /\ (ret_category[1] = "critical") <=> (arg_score >= 60)
           /\ \A lower \in 0..arg_score :
                 CategoryRank(get_risk_category(lower)) <= CategoryRank(ret_category[1])

\* the score 35 was categorised
C2_Witness == arg_score = 35 /\ ret_category = << "medium" >>

\* C3: the 12-month default probability of a returned record lies in
\* [0, 0.95], the category multiplier included (probability in 1/1000).
C3_DefaultProbabilityCapped ==
    (Scored /\ response.status = "ok")
        => ScoredRecord.default_probability_12m \in 0..950

\* a record of an SME stored as critical whose probability hit the cap
C3_Witness ==
    /\ Scored
    /\ response.status = "ok"
    /\ ScoredRecord.default_probability_12m = 950
    /\ \E i \in 1..Len(smes_df) :
          smes_df[i].id = response.args /\ smes_df[i].risk_category = "critical"

\* C4: calculate_risk_score raises the not-found ValueError (HTTP 404, the id
\* in its message) exactly when the id is absent from the master record, and
\* then no record, not even a partial one, is returned or remembered.
C4_NotFoundIffAbsent ==
    Scored
        => /\ (response.status = "ValueError") <=> (response.args \notin MasterIds)
           /\ (response.status = "ValueError")
                 => /\ response.http = 404
                    /\ response.detail = "SME " \o response.args \o " not found"
                    /\ response.body = << >>
                    /\ scored[response.args] = << >>

\* an absent id was asked for
C4_Witness ==
    /\ Scored
    /\ response.args = UnknownId
    /\ response.status = "ValueError"
    /\ response.http = 404

\* C5: for a known id, whichever secondary tables hold no row for the SME,
\* calculate_risk_score raises nothing and returns a complete record with a
\* risk_score in [0, 100].
C5_EmptyTablesTolerated ==
    (Scored /\ response.args \in MasterIds /\ EmptyTablesFor(response.args) # { })
        => /\ response.status = "ok"
           /\ response.http = 200
           /\ Len(response.body) = 1
           /\ ScoredRecord.risk_score \in 0..100
           /\ ScoredRecord.risk_category \in { "stable", "medium", "critical" }
           /\ ScoredRecord.default_probability_12m \in 0..1000
           /\ DOMAIN ScoredRecord = RecordFields
           /\ DOMAIN ScoredRecord.components
                 = { "financial", "operational", "market", "alternative_data" }
           /\ Len(ScoredRecord.active_signals) <= 5

\* an SME with all five secondary tables empty was scored
C5_Witness ==
    /\ Scored
    /\ response.args \in MasterIds
    /\ Cardinality(EmptyTablesFor(response.args)) = 5
    /\ response.status = "ok"

\* the latest call was a batch scoring
Batched == response.op = "calculate_batch_risk"

\* C6: batch_calculate_risk_scores never raises and returns a list as long as
\* its input and in its order: the record of calculate_risk_score for a known
\* id, an error descriptor carrying the id for an unknown one, whatever the
\* other ids of the batch are.
C6_BatchEntryPerId ==
    Batched
        => /\ response.status = "ok"
           /\ response.http = 200
           /\ Len(response.body) = Len(response.args)
           /\ \A i \in 1..Len(response.args) :
                 LET sme_id == response.args[i]
                     entry  == response.body[i]
                 IN  /\ entry.sme_id = sme_id
                     /\ sme_id \in MasterIds
                           => /\ DOMAIN entry = RecordFields
                              /\ entry = calculate_risk_score(sme_id).body[1]
                     /\ sme_id \notin MasterIds
                           => /\ DOMAIN entry = { "sme_id", "error" }
                              /\ entry.error = "SME " \o sme_id \o " not found"

\* a batch of an unknown id followed by a known one
C6_Witness ==
    /\ Batched
    /\ Len(response.args) = 2
    /\ response.args[1] = UnknownId
    /\ response.args[2] \in MasterIds
    /\ "risk_score" \in DOMAIN response.body[2]

\* C7: calculate_risk_score changes no loaded table, and two scorings of the
\* same id return identical records, whatever scoring or scenario calls run
\* between them.
C7_ScoringIsPure ==
    [][ /\ tables' = tables
        /\ \A sme_id \in DOMAIN scored :
              Len(scored'[sme_id]) = 2 => scored'[sme_id][1] = scored'[sme_id][2]
      ]_vars

\* an id scored twice within three calls, no other SME scored meanwhile
C7_Witness ==
    /\ calls = 3
    /\ response.op = "calculate_risk"
    /\ response.status = "ok"
    /\ Len(scored[response.args]) = 2
    /\ \A sme_id \in DOMAIN scored \ { response.args } : scored[sme_id] = << >>

\* the scenario types run_scenario dispatches on
SupportedScenarioTypes ==
    { "interest_rate", "sector_shock", "recession", "economic",
      "eba_2025_adverse", "eba_adverse", "geopolitical", "climate_transition",
      "regulation" }

\* the latest call ran a scenario
Ran == response.op = "run_scenario"

ScenarioResult == response.body[1]

\* C8: run_scenario raises ValueError naming the scenario type exactly when
\* the type is not a supported one, and then returns no result at all.
C8_UnknownTypeRejected ==
    Ran
        => /\ (response.status = "ValueError")
                 <=> (response.args.scenario_type \notin SupportedScenarioTypes)
           /\ (response.status = "ValueError")
                 => /\ response.detail
                          = "Unknown scenario type: " \o response.args.scenario_type
                    /\ response.body = << >>
           /\ (response.status # "ValueError")
                 => response.status = "ok" /\ Len(response.body) = 1

\* a type differing from a supported one by case only was rejected
C8_Witness ==
    /\ Ran
    /\ response.args.scenario_type = "Interest_Rate"
    /\ response.status = "ValueError"

\* the unrounded post-shock score of row i under the scenario just run, in
\* 1/Point of a score point
ShockedScore(i) ==
    LET handler == scenario_handler(response.args.scenario_type)
        sme     == scenario_smes_df[i]
    IN  Min(sme.risk_score * Point
              + base_pd_increase(handler, response.args.parameters)
                * Get(sector_multipliers(handler, response.args.parameters),
                      sme.sector, UnitMultiplier),
            100 * Point)

\* the rows whose score was below 60 before the shock and is at least 60 after
NewlyCritical ==
    { i \in 1..Len(scenario_smes_df) :
        /\ scenario_smes_df[i].risk_score < 60
        /\ ShockedScore(i) >= 60 * Point }

\* C9: criticalAfter = criticalBefore + the number of newly critical SMEs, an
\* SME being newly critical iff its score was below 60 and is at least 60
\* after the shock.
C9_CriticalAfterAddsNewlyCritical ==
    (Ran /\ response.status = "ok")
        => /\ ScenarioResult.portfolioImpact.criticalAfter
                 = ScenarioResult.portfolioImpact.criticalBefore
                   + Cardinality(NewlyCritical)
           /\ Len(ScenarioResult.newCriticalSMEs) = Cardinality(NewlyCritical)
           /\ \A i \in NewlyCritical :
                 \E j \in 1..Len(ScenarioResult.newCriticalSMEs) :
                     ScenarioResult.newCriticalSMEs[j].smeId = scenario_smes_df[i].id

\* a shock that pushed one SME over 60 and left another, already at or above
\* 60, out of the count
C9_Witness ==
    /\ Ran
    /\ response.status = "ok"
    /\ Cardinality(NewlyCritical) = 1
    /\ ScenarioResult.portfolioImpact.criticalBefore >= 1
    /\ \E i \in 1..Len(scenario_smes_df) :
          scenario_smes_df[i].risk_score >= 60 /\ ShockedScore(i) >= 60 * Point

\* C10: the sectorImpact rows partition the portfolio: every SME's sector has
\* exactly one row, a row counts the SMEs of its sector, the counts sum to the
\* portfolio size and the rows' totalExposure sum to the portfolio's
\* totalExposure up to the rounding of each figure.
C10_SectorRowsPartition ==
    (Ran /\ response.status = "ok")
        => LET rows    == ScenarioResult.sectorImpact
               SmesIn(sector) ==
                   { i \in 1..Len(scenario_smes_df) :
                       scenario_smes_df[i].sector = sector }
           IN  /\ \A j, k \in 1..Len(rows) :
                     rows[j].sector = rows[k].sector => j = k
               /\ \A i \in 1..Len(scenario_smes_df) :
                     \E j \in 1..Len(rows) :
                         rows[j].sector = scenario_smes_df[i].sector
               /\ \A j \in 1..Len(rows) :
                     rows[j].smes = Cardinality(SmesIn(rows[j].sector))
               /\ SumSeq([ j \in 1..Len(rows) |-> rows[j].smes ])
                     = Len(scenario_smes_df)
               /\ 2 * Abs(SumSeq([ j \in 1..Len(rows) |-> rows[j].totalExposure ])
                          - ScenarioResult.portfolioImpact.totalExposure)
                     <= Len(rows) + 1

\* a shock on one sector over a portfolio holding an SME of a sector the
\* multiplier table does not list, which the shock left below the impact
\* threshold
C10_Witness ==
    /\ Ran
    /\ response.status = "ok"
    /\ response.args.scenario_type = "sector_shock"
    /\ Len(ScenarioResult.sectorImpact) = 2
    /\ \E j \in 1..2 :
          /\ ScenarioResult.sectorImpact[j].sector = "Agriculture"
          /\ ScenarioResult.sectorImpact[j].sector \notin DOMAIN SECTOR_MULTIPLIERS
    /\ Len(ScenarioResult.topImpacted) < Len(scenario_smes_df)

\* C11: in every scenario result (exposures are non-negative) the loss
\* projection satisfies current <= year1 <= year2 <= year3, and all four
\* figures are 0 when no SME is newly critical.
C11_LossProjectionMonotone ==
    (Ran /\ response.status = "ok")
        => LET loss == ScenarioResult.estimatedLoss
           IN  /\ \A i \in 1..Len(scenario_smes_df) : scenario_smes_df[i].exposure >= 0
               /\ 0 <= loss.current
               /\ loss.current <= loss.year1
               /\ loss.year1 <= loss.year2
               /\ loss.year2 <= loss.year3
               /\ NewlyCritical = { }
                     => loss = [ current |-> 0, year1 |-> 0, year2 |-> 0, year3 |-> 0 ]

\* a shock that made an SME with a large exposure newly critical: the four
\* figures differ
C11_Witness ==
    /\ Ran
    /\ response.status = "ok"
    /\ NewlyCritical # { }
    /\ 0 < ScenarioResult.estimatedLoss.current
    /\ ScenarioResult.estimatedLoss.current < ScenarioResult.estimatedLoss.year1
    /\ ScenarioResult.estimatedLoss.year1 < ScenarioResult.estimatedLoss.year2
    /\ ScenarioResult.estimatedLoss.year2 < ScenarioResult.estimatedLoss.year3

\* the scenario just run left the portfolio as it was: no score moved, no SME
\* is impacted or newly critical, and no loss is projected
ScenarioHadNoEffect ==
    /\ \A i \in 1..Len(scenario_smes_df) :
          ShockedScore(i) = scenario_smes_df[i].risk_score * Point
    /\ ScenarioResult.topImpacted = << >>
    /\ ScenarioResult.newCriticalSMEs = << >>
    /\ \A j \in 1..Len(ScenarioResult.sectorImpact) :
          /\ ScenarioResult.sectorImpact[j].avgChange = 0
          /\ ScenarioResult.sectorImpact[j].newCritical = 0
    /\ ScenarioResult.portfolioImpact.criticalAfter
          = ScenarioResult.portfolioImpact.criticalBefore
    /\ ScenarioResult.portfolioImpact.avgScoreAfter
          = ScenarioResult.portfolioImpact.avgScoreBefore
    /\ ScenarioResult.estimatedLoss
          = [ current |-> 0, year1 |-> 0, year2 |-> 0, year3 |-> 0 ]

\* C12: a recession scenario invoked with gdp_change = 0 and
\* unemployment_change = 0 has a base increase of 0: every SME's score is
\* unchanged, no SME becomes newly critical and every estimatedLoss figure
\* is 0.
C12_ZeroRecessionHasNoEffect ==
    ( /\ Ran
      /\ response.args.scenario_type \in { "recession", "economic" }
      /\ Get(response.args.parameters, "gdp_change", 1) = 0
      /\ Get(response.args.parameters, "unemployment_change", 1) = 0 )
        => /\ response.status = "ok"
           /\ base_pd_increase("recession", response.args.parameters) = 0
           /\ ScenarioHadNoEffect

\* C13 as stated: an interest-rate scenario whose parameters set
\* rate_change_bps = 0 has a base increase of 0: every SME's score is
\* unchanged, no SME is impacted or newly critical, and every estimatedLoss
\* figure is 0.
C13_RateChangeBpsKeyZero ==
    ( /\ Ran
      /\ response.args.scenario_type = "interest_rate"
      /\ Get(response.args.parameters, "rate_change_bps", 1) = 0 )
        => /\ response.status = "ok"
           /\ base_pd_increase("interest_rate", response.args.parameters) = 0
           /\ ScenarioHadNoEffect

\* C13 as amended: an interest-rate scenario whose rate, read from the
\* parameter rate_change (or rate_increase_bps when rate_change is absent) and
\* reported back as parameters.rate_change_bps, is 0 has a base increase of 0:
\* every SME's score is unchanged, no SME is impacted or newly critical, and
\* every estimatedLoss figure is 0.
C13_ZeroRateHasNoEffect ==
    ( /\ Ran
      /\ response.status = "ok"
      /\ response.args.scenario_type = "interest_rate"
      /\ ScenarioResult.parameters.rate_change_bps = 0 )
        => /\ base_pd_increase("interest_rate", response.args.parameters) = 0
           /\ ScenarioHadNoEffect

\* a rate of 0 applied to a portfolio holding an SME one point below critical
C13_Witness ==
    /\ Ran
    /\ response.status = "ok"
    /\ response.args.scenario_type = "interest_rate"
    /\ Get(response.args.parameters, "rate_change", 1) = 0
    /\ ScenarioResult.parameters.rate_change_bps = 0
    /\ \E i \in 1..Len(scenario_smes_df) : scenario_smes_df[i].risk_score = 59

\* the latest call ran a sector shock, of either ScenarioService, naming a
\* sector in which the service's table holds no SME
ShockedAbsentSector ==
    /\ response.op \in { "run_scenario", "app_run_scenario" }
    /\ response.args.scenario_type = "sector_shock"
    /\ LET sector == Get(response.args.parameters, "sector", "Retail/Fashion")
           df     == IF response.op = "run_scenario" THEN scenario_smes_df
                     ELSE app_smes_df
       IN  \A i \in 1..Len(df) : df[i].sector # sector

\* C14: run_scenario('sector_shock', ...) naming a sector that has no SME in
\* the portfolio completes without raising and returns an empty impacted list.
C14_AbsentSectorShockIsEmpty ==
    ShockedAbsentSector
        => /\ response.status = "ok"
           /\ response.op = "run_scenario"
                 => ScenarioResult.topImpacted = << >>
           /\ response.op = "app_run_scenario"
                 => ScenarioResult.impacted_smes = << >>

TierLossAbove(limit) == arg_tier.loss_halves > 2 * limit

TierLossBelow(limit) == arg_tier.loss_halves < 2 * limit

\* C16: the warranted tier is ultra_conservative when more than 20 SMEs are
\* newly critical or the loss exceeds 10M; moderate only when fewer than 10
\* SMEs are newly critical and the loss is below 5M; conservative in between
\* (10 to 20 newly critical, or a loss from 5M to 10M): exactly one tier for
\* every (count, loss) pair.
C16_TierByCountAndLoss ==
    (ret_tier # << >>)
        => LET count == arg_tier.new_critical_count
               ultra == count > 20 \/ TierLossAbove(10000000)
               moderate == count < 10 /\ TierLossBelow(5000000)
           IN  /\ ret_tier[1] \in { "ultra_conservative", "conservative", "moderate" }
               /\ (ret_tier[1] = "ultra_conservative") <=> ultra
               /\ (ret_tier[1] = "moderate") <=> (~ultra /\ moderate)
               /\ (ret_tier[1] = "conservative") <=> (~ultra /\ ~moderate)

\* C17: in the alternative-data score each of the four sub-signals (employee,
\* web traffic, news, compliance) takes the neutral value 30 when its table
\* (for the employee signal, departures and employees) has no row for the
\* SME, whatever the other three are; with no row anywhere the
\* alternative-data component is therefore 30.0.
C17_NeutralSubSignalWhenNoRow ==
    (Scored /\ response.status = "ok")
        => LET sme_id == response.args
               empty  == EmptyTablesFor(sme_id)
           IN  /\ { "departures", "employees" } \subseteq empty
                     => employee_score(sme_id) = 30
               /\ "traffic" \in empty => traffic_score(sme_id) = 30
               /\ "news" \in empty => news_score(sme_id) = 30
               /\ "companies" \in empty => companies_house_score(sme_id) = 30
               /\ Cardinality(empty) = 5
                     => ScoredRecord.components.alternative_data = 300

TerminalStatuses == { "completed", "failed" }

StatusRank(status) ==
    CASE status = "pending" -> 0
      [] status = "running" -> 1
      [] status \in TerminalStatuses -> 2

\* what a poller saw of one job never goes back: ranks do not fall, and a
\* status seen again at the same rank is the same status
InStatusOrder(seen) ==
    \A i \in 1..Len(seen) : \A k \in i..Len(seen) :
        /\ StatusRank(seen[i]) <= StatusRank(seen[k])
        /\ StatusRank(seen[i]) = StatusRank(seen[k]) => seen[i] = seen[k]

\* the job whose id the last response of create_job carries has just been
\* stored and nothing of its computation has run
ReturnedBeforeRun(job_id) ==
    /\ response'.op = "create_job"
    /\ response'.body[1].job_id = job_id
    /\ tasks'[job_id] = "scheduled"
    /\ jobs'[job_id].result = << >>
    /\ jobs'[job_id].completed_at = << >>

C19_TerminalRecordFrozen ==
    [][\A job_id \in DOMAIN jobs :
        jobs[job_id].status \in TerminalStatuses
            => /\ job_id \in DOMAIN jobs'
               /\ jobs'[job_id] = jobs[job_id]
               /\ tasks'[job_id] = "done"]_vars

\* a job finished, then another one was created and finished, and the first
\* was polled
C19_Witness ==
    \E job_id, other \in DOMAIN jobs :
        /\ jobs[job_id].status = "completed"
        /\ jobs[other].status \in TerminalStatuses
        /\ jobs[other].created_at > jobs[job_id].completed_at[1]
        /\ observed[job_id] # << >>

\* the master row has DSCR 0.9, current ratio 0.8, debt/equity 3.5, a cash
\* runway of 2 months and an EBITDA margin of 3%
Distressed(sme) ==
    /\ sme.debt_service_coverage = 90
    /\ sme.current_ratio = 80
    /\ 2 * sme.debt = 7 * Max(sme.revenue - sme.debt, 1)
    /\ sme.revenue > 0
    /\ 240 * sme.cash_reserves = 2 * 17 * sme.revenue
    /\ 100 * sme.ebitda = 3 * sme.revenue

\* the master row of the SME just scored
ScoredRow == smes_df[CHOOSE i \in 1..Len(smes_df) : smes_df[i].id = response.args]

\* market and alternative-data sub-scores are both 30.00
NeutralMarketAndAltData ==
    /\ calc_market_score(ScoredRow) = 3000
    /\ calc_alternative_data_score(response.args) = 3000

\* C20 (as stated): an SME with DSCR 0.9, current ratio 0.8, debt/equity 3.5,
\* cash runway 2 months and EBITDA margin 3% gets a financial sub-score in
\* [80, 95], and its composite is critical (>= 60) whenever its market and
\* alternative-data sub-scores are 30, for every operational sub-score the
\* engine can produce.
C20_DistressedIsCritical ==
    (Scored /\ response.status = "ok" /\ Distressed(ScoredRow))
        => /\ calc_financial_score(ScoredRow) \in 8000..9500
           /\ NeutralMarketAndAltData
                 => /\ ScoredRecord.risk_score >= 60
                    /\ ScoredRecord.risk_category = "critical"

\* C20 (amended): such an SME gets a financial sub-score in [80, 95], and its
\* composite is critical (>= 60) whenever its market and alternative-data
\* sub-scores are 30 and its operational sub-score is at least 48.
C20_DistressedIsCriticalFromOperational48 ==
    (Scored /\ response.status = "ok" /\ Distressed(ScoredRow))
        => /\ calc_financial_score(ScoredRow) \in 8000..9500
           /\ (NeutralMarketAndAltData /\ calc_operational_score(ScoredRow) >= 4800)
                 => /\ ScoredRecord.risk_score >= 60
                    /\ ScoredRecord.risk_category = "critical"

\* the SME in distress scored with market and alternative data at 30 and the
\* operational sub-score at 48: the composite is 60
C20_Witness ==
    /\ Scored
    /\ response.status = "ok"
    /\ Distressed(ScoredRow)
    /\ NeutralMarketAndAltData
    /\ calc_operational_score(ScoredRow) = 4800
    /\ ScoredRecord.components.financial = 932
    /\ ScoredRecord.risk_score = 60

\* the SME has two C-level departures, web traffic down 45% quarter over
\* quarter and one critical-severity news event
ThreeSignalCase(sme_id) ==
    LET IsCLevel(r) == r.seniority = "C-Level"
        IsCritical(r) == r.severity = "critical"
    IN  /\ Len(SelectSeq(RowsOf(departures_df, sme_id), IsCLevel)) = 2
        /\ RowsOf(traffic_df, sme_id) # << >>
        /\ RowsOf(traffic_df, sme_id)[1].users_change_qoq = -45
        /\ Len(SelectSeq(RowsOf(news_df, sme_id), IsCritical)) = 1

\* which of the three signals an entry of the active-signal list reports
SignalKind(signal) ==
    IF signal.label.kind \in { "CEO departure", "CFO departure", "CTO departure",
                          "C-level departure", "Director change" }
    THEN "departure"
    ELSE IF signal.label.kind = "Web traffic QoQ" THEN "web traffic"
    ELSE IF signal.label.kind = "news" THEN "critical news"
    ELSE "other"

\* the three signals that appear among the first three entries of a list
TopThreeKinds(signals) ==
    { SignalKind(signals[i]) : i \in 1..Min(3, Len(signals)) } \ { "other" }

\* C21: an SME with two C-level departures, web traffic down 45% quarter over
\* quarter and one critical news event gets an alternative-data sub-score of
\* at least 80, and at least 2 of the 3 signals are among the top 3 entries
\* of its active-signal list and of its narrative, whatever its compliance
\* row and previous score are.
C21_ThreeSignalsScoreAndNarrative ==
    (Scored /\ response.status = "ok" /\ ThreeSignalCase(response.args))
        => /\ ScoredRecord.components.alternative_data >= 800
           /\ Cardinality(TopThreeKinds(ScoredRecord.active_signals)) >= 2
           /\ Cardinality(TopThreeKinds(ScoredRecord.score_narrative.parts)) >= 2

\* base_increase x sector_multiplier of row i under the scenario just run,
\* in 1/Point of a score point
ShockIncrease(i) ==
    LET handler == scenario_handler(response.args.scenario_type)
    IN  base_pd_increase(handler, response.args.parameters)
          * Get(sector_multipliers(handler, response.args.parameters),
                scenario_smes_df[i].sector, UnitMultiplier)

\* the records of row i in a list of the result
RecordsOf(list, i) ==
    { j \in 1..Len(list) : list[j].smeId = scenario_smes_df[i].id }

\* C22: for every SME, scoreAfter = min(100, scoreBefore + base_increase x
\* sector_multiplier) (recorded to one decimal); the SME is recorded as
\* impacted iff the increase is >= 2.0, and as newly critical iff scoreBefore
\* < 60 and scoreAfter >= 60, so an SME already at or above 60 never is.
C22_VectorPerSme ==
    (Ran /\ response.status = "ok")
        => \A i \in 1..Len(scenario_smes_df) :
              LET before   == scenario_smes_df[i].risk_score
                  after    == Min(before * Point + ShockIncrease(i), 100 * Point)
                  impacted == RecordsOf(ScenarioResult.topImpacted, i)
                  critical == RecordsOf(ScenarioResult.newCriticalSMEs, i)
                  Exact(r) == /\ r.scoreBefore = before
                              /\ r.scoreAfter = Round(after, Point \div 10)
                              /\ r.change = Round(ShockIncrease(i), Point \div 10)
              IN  /\ (impacted # {}) <=> (ShockIncrease(i) >= 2 * Point)
                  /\ (critical # {}) <=> (before < 60 /\ after >= 60 * Point)
                  /\ before >= 60 => critical = {}
                  /\ Cardinality(impacted) <= 1 /\ Cardinality(critical) <= 1
                  /\ \A j \in impacted : Exact(ScenarioResult.topImpacted[j])
                  /\ \A j \in critical : Exact(ScenarioResult.newCriticalSMEs[j])

\* one SME impacted and newly critical, another impacted at 60 or more before
\* the shock, hence not newly critical
C22_Witness ==
    /\ Ran
    /\ response.status = "ok"
    /\ \E i, k \in 1..Len(scenario_smes_df) :
          /\ RecordsOf(ScenarioResult.topImpacted, i) # {}
          /\ RecordsOf(ScenarioResult.newCriticalSMEs, i) # {}
          /\ scenario_smes_df[k].risk_score >= 60
          /\ RecordsOf(ScenarioResult.topImpacted, k) # {}
          /\ RecordsOf(ScenarioResult.newCriticalSMEs, k) = {}

\* C23: in a sector_shock scenario every SME of the named sector gets the
\* multiplier 3 x severity and every SME of any other sector the damped
\* multiplier 0.3, also when its sector is not a key of the sector
\* multiplier table: each sector's average change is the base increase times
\* that multiplier.
C23_SectorShockMultipliers ==
    (Ran /\ response.status = "ok"
         /\ scenario_handler(response.args.scenario_type) = "sector_shock")
        => LET params   == response.args.parameters
               named    == Get(params, "sector", "Retail/Fashion")
               severity == Get(params, "severity", 7)
               Damped   == (3 * UnitMultiplier) \div 10
               Expected(sector) ==
                   IF sector = named THEN (3 * UnitMultiplier * severity) \div 10
                   ELSE Damped
           IN  \A j \in 1..Len(ScenarioResult.sectorImpact) :
                  ScenarioResult.sectorImpact[j].avgChange
                      = Round(sector_shock_base(params)
                                * Expected(ScenarioResult.sectorImpact[j].sector),
                              Point \div 10)

\* the sum of the post-shock scores min(100, scoreBefore + increase) of all
\* SMEs, in 1/Point of a score point
ShockedScoreSum ==
    SumSeq([ i \in 1..Len(scenario_smes_df) |-> ShockedScore(i) ])

\* C24: portfolioImpact.avgScoreAfter is the mean over all SMEs of their
\* post-shock score min(100, scoreBefore + increase), up to the rounding of
\* the figures it is built from (two tenths of a point): every SME's delta is
\* folded in, not only those recorded as impacted.
C24_AvgScoreAfterIsMeanOfAll ==
    (Ran /\ response.status = "ok")
        => LET total_smes == Len(scenario_smes_df)
               Tenth      == Point \div 10
           IN  Abs(ScenarioResult.portfolioImpact.avgScoreAfter * total_smes * Tenth
                     - ShockedScoreSum)
                  <= 2 * total_smes * Tenth

\* the 12-month default probability of a score when the category multiplier
\* is the one of `category`, in 1e-5
PdOfCategory(risk_score, sme, category) ==
    LET beta_2 == Get(SECTOR_BETA, sme.sector, 0)
        beta_3 == IF sme.revenue < 1000000 THEN -100
                  ELSE IF sme.revenue < 3000000 THEN -50
                  ELSE IF sme.revenue < 5000000 THEN 0
                  ELSE 50
        z == -520 + 12 * risk_score + beta_2 + beta_3
        multiplier == IF category = "critical" THEN 14
                      ELSE IF category = "medium" THEN 11
                      ELSE 9
    IN  Min(Logistic(z) * multiplier, 95000)

\* C25: the category multiplier applied to the default probability is the one
\* of the risk_category reported in the same record (critical x1.4, medium
\* x1.1, stable x0.9), the category of the freshly computed composite score.
C25_PdUsesReportedCategory ==
    (Scored /\ response.status = "ok")
        => /\ ScoredRecord.risk_category = get_risk_category(ScoredRecord.risk_score)
           /\ ScoredRecord.default_probability_12m
                 = Round(PdOfCategory(ScoredRecord.risk_score, ScoredRow,
                                      ScoredRecord.risk_category), 100)

\* what run_scenario does on the request of a job
JobOutcome(job_id) ==
    run_scenario(jobs[job_id].scenario_type, jobs[job_id].parameters)

\* C26: every job created eventually leaves "running" for a terminal status
\* (the event loop running its task): "completed" with progress 100 and a
\* result when run_scenario returns, "failed" with an error and no result
\* when it raises; get_job_result returns a result for a completed job only.
C26_JobsReachTerminalStatus ==
    /\ \A job_id \in 1..MaxJobs :
          (job_id \in DOMAIN jobs)
              ~> (job_id \in DOMAIN jobs /\ jobs[job_id].status \in TerminalStatuses)
    /\ [](\A job_id \in DOMAIN jobs :
            /\ jobs[job_id].status = "completed"
                  => /\ JobOutcome(job_id).status = "ok"
                     /\ jobs[job_id].progress = 100
                     /\ jobs[job_id].result = JobOutcome(job_id).body
                     /\ jobs[job_id].result # << >>
                     /\ jobs[job_id].error = << >>
            /\ jobs[job_id].status = "failed"
                  => /\ JobOutcome(job_id).status # "ok"
                     /\ jobs[job_id].error = << JobOutcome(job_id).detail >>
                     /\ jobs[job_id].result = << >>
            /\ get_job_result(job_id) # << >>
                  => jobs[job_id].status = "completed")
    /\ []((response.op = "get_job_result" /\ response.body # << >>)
             => /\ response.args[1] \in DOMAIN jobs
                /\ jobs[response.args[1]].status = "completed"
                /\ response.body = jobs[response.args[1]].result)

\* one job completed and its result fetched, another failed on an unknown
\* scenario type
C26_Witness ==
    /\ response.op = "get_job_result"
    /\ response.body # << >>
    /\ \E job_id \in DOMAIN jobs :
          /\ jobs[job_id].status = "failed"
          /\ jobs[job_id].scenario_type = "foo"
          /\ get_job_result(job_id) = << >>

\* the SME records of the result: the impacted ones and the newly critical
ResultRecords ==
    { ScenarioResult.topImpacted[j] : j \in 1..Len(ScenarioResult.topImpacted) }
    \cup { ScenarioResult.newCriticalSMEs[j] :
             j \in 1..Len(ScenarioResult.newCriticalSMEs) }

\* C27: for every scenario type and every numeric parameter value, negative
\* rate, unemployment or severity values included, each SME's scoreAfter in
\* the scenario result lies in [0, 100].
C27_ScoreAfterInRange ==
    (Ran /\ response.status = "ok")
        => \A r \in ResultRecords : r.scoreAfter >= 0 /\ r.scoreAfter <= 1000

\* a sector shock of negative severity whose result records an SME, and the
\* unrecorded post-shock score of another SME under it
C27_Witness ==
    /\ Ran
    /\ response.status = "ok"
    /\ scenario_handler(response.args.scenario_type) = "sector_shock"
    /\ Get(response.args.parameters, "severity", 7) < 0
    /\ ResultRecords # {}
    /\ \E i \in 1..Len(scenario_smes_df) : ShockIncrease(i) < 0

\* the rows whose post-shock score is at least 60
CriticalAfterShock ==
    { i \in 1..Len(scenario_smes_df) : ShockedScore(i) >= 60 * Point }

\* C28: in every scenario result criticalAfter is the number of SMEs whose
\* post-shock score is at least 60 and never exceeds the total number of
\* SMEs: no SME is counted both in criticalBefore (by its stored
\* risk_category) and as newly critical (by its stored risk_score crossing
\* 60).
C28_CriticalAfterCountsEachSmeOnce ==
    (Ran /\ response.status = "ok")
        => /\ ScenarioResult.portfolioImpact.criticalAfter
                 = Cardinality(CriticalAfterShock)
           /\ ScenarioResult.portfolioImpact.criticalAfter <= Len(scenario_smes_df)
           /\ \A i \in NewlyCritical : scenario_smes_df[i].risk_category # "critical"

\* C29: the operational sub-score is monotone in the trend direction: for
\* the same trend_value an SME whose trend is "up" never gets a higher
\* (worse) operational sub-score than one whose trend is "stable" or "down".
C29_UpTrendNeverWorse ==
    (Scored /\ response.status = "ok" /\ ScoredRow.trend = "up")
        => \A trend \in { "stable", "down" } :
              /\ calc_operational_score(ScoredRow)
                    <= calc_operational_score([ ScoredRow EXCEPT !.trend = trend ])
              /\ ScoredRecord.components.operational
                    <= Round(calc_operational_score(
                                 [ ScoredRow EXCEPT !.trend = trend ]), 10)

\* C30: ConnectionManager.broadcast delivers the message to every
\* connection that stays in active_connections for the whole broadcast,
\* even when other connections disconnect while the broadcast is suspended
\* on a send: when the broadcast has ended, no connection that was in the
\* list from its start to its end has been skipped.
C30_BroadcastReachesAllThatStay ==
    broadcast.state = "done" => broadcast.stayed \subseteq broadcast.delivered

====
